---- MODULE Spec2Model ----
(***************************************************************************)
(* Model of the Lattes production parsers of inctnanoagro/metricas:        *)
(* the parser router (parser_router.py), the four parsers it dispatches to *)
(* (GenericParser, ArtigoParser v2, CapituloParser v2, TextoJornalParser)  *)
(* and the label normalisation used to pick a parser.                      *)
(*                                                                         *)
(* Text is a sequence of one-character strings, so that the cleaning and   *)
(* matching functions are computed character by character as the regular   *)
(* expressions of the source compute them.  The character "nbsp" stands    *)
(* for U+00A0, "o_acute" and the like for precomposed accented letters,    *)
(* and "acute", "tilde", "cedilla" for the combining marks NFD produces.   *)
(***************************************************************************)
EXTENDS Integers, Sequences, FiniteSets, TLC

VARIABLES doc, parser, run, result, label, selected, batch, norm

vars == <<doc, parser, run, result, label, selected, batch, norm>>

\* ------------------------------------------------------------------------
\* Bounds of the model
\* ------------------------------------------------------------------------
MaxBlocks == 2

\* the productions of a profile are at most this many
MaxItems == 2

\* a text given to normalize_text is made of at most this many pieces
MaxPieces == 3
RepMany == 11

\* ------------------------------------------------------------------------
\* Characters and character classes (Python re: \s, \d, [A-Z], \b)
\* ------------------------------------------------------------------------
None == "None"

UpperSeq == <<"A", "B", "C", "D", "E", "F", "G", "H", "I", "J", "K", "L", "M",
              "N", "O", "P", "Q", "R", "S", "T", "U", "V", "W", "X", "Y", "Z">>

LowerSeq == <<"a", "b", "c", "d", "e", "f", "g", "h", "i", "j", "k", "l", "m",
              "n", "o", "p", "q", "r", "s", "t", "u", "v", "w", "x", "y", "z">>

DigitSet == {"0", "1", "2", "3", "4", "5", "6", "7", "8", "9"}

UpperSet == {UpperSeq[i] : i \in 1..26}

LowerSet == {LowerSeq[i] : i \in 1..26}

IsUpper(c) == c \in UpperSet

IsDigit(c) == c \in DigitSet

IsSpace(c) == c \in {" ", "\n", "\t", "nbsp"}

\* the precomposed accented letters of the texts
AccentedLower ==
    {"a_tilde", "c_cedilla", "i_acute", "o_acute", "a_grave", "o_umlaut"}

AccentedUpper == {"A_tilde", "C_cedilla", "I_acute", "O_acute", "O_umlaut"}

\* the combining marks of these letters
CombiningMarks == {"acute", "tilde", "cedilla", "grave", "diaeresis"}

\* \w of a str pattern: ASCII and accented letters, digits, "_"
IsWord(c) ==
    c \in UpperSet \cup LowerSet \cup DigitSet \cup {"_"}
             \cup AccentedLower \cup AccentedUpper

\* s[i..j] as a sequence; empty when j < i
Slice(s, i, j) == IF j < i THEN <<>> ELSE SubSeq(s, i, j)

\* s[i] when i is inside s, None otherwise
At(s, i) == IF i >= 1 /\ i <= Len(s) THEN s[i] ELSE None

\* does pattern p occur in s at position i
MatchAt(s, p, i) ==
    /\ i >= 1
    /\ i + Len(p) - 1 <= Len(s)
    /\ \A k \in 1..Len(p) : s[i + k - 1] = p[k]

\* Python "p in s"
Contains(s, p) == \E i \in 1..(Len(s) + 1) : MatchAt(s, p, i)

\* first position at or after i whose character is not whitespace
RECURSIVE SkipSpaces(_, _)
SkipSpaces(s, i) ==
    IF i <= Len(s) /\ IsSpace(s[i]) THEN SkipSpaces(s, i + 1) ELSE i

\* first position at or after i whose character is not in [A-Z]
RECURSIVE SkipUpper(_, _)
SkipUpper(s, i) ==
    IF i <= Len(s) /\ IsUpper(s[i]) THEN SkipUpper(s, i + 1) ELSE i

\* text.replace('\xa0', ' ')
ReplaceNbsp(s) == [i \in 1..Len(s) |-> IF s[i] = "nbsp" THEN " " ELSE s[i]]

\* the least and the greatest element of a non-empty set of integers
SetMin(S) == CHOOSE m \in S : \A n \in S : m <= n

SetMax(S) == CHOOSE m \in S : \A n \in S : m >= n

\* pieces[lo] \o ... \o pieces[hi]
RECURSIVE ConcatRange(_, _, _)
ConcatRange(pieces, lo, hi) ==
    IF lo > hi THEN <<>>
    ELSE IF lo = hi THEN pieces[lo]
    ELSE ConcatRange(pieces, lo, (lo + hi) \div 2)
             \o ConcatRange(pieces, (lo + hi) \div 2 + 1, hi)

ConcatAll(pieces) == ConcatRange(pieces, 1, Len(pieces))

\* re.sub(r'\s+', ' ', text): a run of whitespace leaves one space
CollapseSpaces(s) ==
    ConcatAll([i \in 1..Len(s) |->
                 IF ~IsSpace(s[i]) THEN <<s[i]>>
                 ELSE IF i > 1 /\ IsSpace(s[i - 1]) THEN <<>>
                 ELSE <<" ">>])

\* str.strip()
RECURSIVE LastNonSpace(_, _)
LastNonSpace(s, j) ==
    IF j >= 1 /\ IsSpace(s[j]) THEN LastNonSpace(s, j - 1) ELSE j

Strip(s) == Slice(s, SkipSpaces(s, 1), LastNonSpace(s, Len(s)))

\* clean_text of the specialised parsers: nbsp, whitespace runs, strip
clean_text(s) == Strip(CollapseSpaces(ReplaceNbsp(s)))

\* get_text(separator=sep) of a span whose text nodes are nodes
get_text(nodes, sep) ==
    ConcatAll([i \in 1..Len(nodes) |->
                 IF i = 1 THEN nodes[i] ELSE sep \o nodes[i]])

\* sep.join(words)
JoinWords(words, sep) ==
    ConcatAll([i \in 1..Len(words) |->
                 IF i = 1 THEN words[i] ELSE sep \o words[i]])

\* the positions at or after i holding a "."
Dots(s, i) == {j \in i..Len(s) : s[j] = "."}

\* the least element of D, otherwise
LeastOr(D, otherwise) == IF D = {} THEN otherwise ELSE SetMin(D)

\* first position at or after i holding a ".", Len(s) + 1 when there is none
NextDot(s, i) == LeastOr(Dots(s, i), Len(s) + 1)

\* first position at or after i holding c, Len(s) + 1 when there is none
NextOf(s, c, i) == LeastOr({j \in i..Len(s) : s[j] = c}, Len(s) + 1)

RECURSIVE SplitFrom(_, _, _)

\* the pieces of s from position i on, M being the places from i on where
\* the separator p occurs
SplitAtFirst(s, p, i, M) ==
    IF M = {} THEN <<Slice(s, i, Len(s))>>
    ELSE <<Slice(s, i, SetMin(M) - 1)>> \o SplitFrom(s, p, SetMin(M) + Len(p))

SplitFrom(s, p, i) ==
    SplitAtFirst(s, p, i, {j \in i..Len(s) : MatchAt(s, p, j)})

\* s.split(p): the occurrences of p are taken from the left, without overlap
Split(s, p) == SplitFrom(s, p, 1)

\* s.replace(p, q)
Replace(s, p, q) == JoinWords(Split(s, p), q)

\* an optional string: a field holding a string, or None
Text(s) == [found |-> TRUE, value |-> s]

NoText == [found |-> FALSE, value |-> <<>>]

\* are the four characters from position d on digits (\d{4})
FourDigits(s, d) == \A k \in 0..3 : IsDigit(At(s, d + k))

\* r'([A-Z]\.)\s*(\d{4})([A-Z]{2,},)': group 3 after the year at d runs up
\* to e (exclusive); the end of the match (exclusive), 0 if it fails
GluedYearGroup3(s, d, e) ==
    IF e - (d + 4) >= 2 /\ At(s, e) = "," THEN e + 1 ELSE 0

\* the same pattern from its year on, expected at d
GluedYearFrom(s, d) ==
    IF FourDigits(s, d) THEN GluedYearGroup3(s, d, SkipUpper(s, d + 4)) ELSE 0

\* end (exclusive) of a match of ([A-Z]\.)\s*(\d{4})([A-Z]{2,},) at i, 0 if none
GluedYearEnd(s, i) ==
    IF IsUpper(At(s, i)) /\ At(s, i + 1) = "."
    THEN GluedYearFrom(s, SkipSpaces(s, i + 2))
    ELSE 0

\* the positions from i on where the pattern matches
GluedYearMatches(s, i) == {j \in i..Len(s) : GluedYearEnd(s, j) # 0}

RECURSIVE SubGluedYear(_, _)

\* the text from i on with the match at j, year at d, end e, replaced by
\* r'\1 \2 \3' and the rest rewritten in turn
ReplaceGluedYear(s, i, j, d, e) ==
    Slice(s, i, j + 1) \o <<" ">> \o Slice(s, d, d + 3) \o <<" ">>
        \o Slice(s, d + 4, e - 1) \o SubGluedYear(s, e)

\* the text from i on, M being the positions of the matches in it
SubGluedYearIn(s, i, M) ==
    IF M = {} THEN Slice(s, i, Len(s))
    ELSE ReplaceGluedYear(s, i, SetMin(M), SkipSpaces(s, SetMin(M) + 2),
                          GluedYearEnd(s, SetMin(M)))

\* re.sub(r'([A-Z]\.)\s*(\d{4})([A-Z]{2,},)', r'\1 \2 \3', text) from
\* position i on: the leftmost match is rewritten, then the text after it
SubGluedYear(s, i) == SubGluedYearIn(s, i, GluedYearMatches(s, i))

\* r'(\b[A-Z]{2,},\s*[A-Z]\.)': the initial of group 1 expected at a; the end
\* of the group (inclusive), 0 if it fails
AuthorInitial(s, a) ==
    IF IsUpper(At(s, a)) /\ At(s, a + 1) = "." THEN a + 1 ELSE 0

\* group 1 started at i, its capitals running up to u (exclusive)
AuthorSurname(s, i, u) ==
    IF u - i >= 2 /\ At(s, u) = "," THEN AuthorInitial(s, SkipSpaces(s, u + 1))
    ELSE 0

\* group 1 (\b[A-Z]{2,},\s*[A-Z]\.) matched at i: its end (inclusive), 0 if none
AuthorGroupEnd(s, i) ==
    IF IsUpper(At(s, i)) /\ ~IsWord(At(s, i - 1))
    THEN AuthorSurname(s, i, SkipUpper(s, i))
    ELSE 0

\* \1 expected at r, group 1 being s[i..g]
AuthorEchoAt(s, i, g, r) ==
    IF MatchAt(s, Slice(s, i, g), r) THEN r + (g - i + 1) ELSE 0

\* \s*(\d{4})\s*\1 after group 1 = s[i..g], the year expected at d
AuthorEchoYear(s, i, g, d) ==
    IF FourDigits(s, d) THEN AuthorEchoAt(s, i, g, SkipSpaces(s, d + 4)) ELSE 0

\* the pattern at i, g being the end of group 1 there
AuthorEchoFrom(s, i, g) ==
    IF g = 0 THEN 0 ELSE AuthorEchoYear(s, i, g, SkipSpaces(s, g + 1))

\* end (exclusive) of a match of (\b[A-Z]{2,},\s*[A-Z]\.)\s*(\d{4})\s*\1 at i
AuthorEchoEnd(s, i) == AuthorEchoFrom(s, i, AuthorGroupEnd(s, i))

\* the positions from i on where the pattern matches
AuthorEchoMatches(s, i) == {j \in i..Len(s) : AuthorEchoEnd(s, j) # 0}

RECURSIVE SubAuthorEcho(_, _)

\* the text from i on with the match whose group 1 ends at g and whose end
\* is e replaced by r'\1 \2', d being the place of the year
ReplaceAuthorEcho(s, i, g, d, e) ==
    Slice(s, i, g) \o <<" ">> \o Slice(s, d, d + 3) \o SubAuthorEcho(s, e)

\* the text from i on with the match at j replaced
SubAuthorEchoAt(s, i, j, g) ==
    ReplaceAuthorEcho(s, i, g, SkipSpaces(s, g + 1), AuthorEchoEnd(s, j))

\* the text from i on, M being the positions of the matches in it
SubAuthorEchoIn(s, i, M) ==
    IF M = {} THEN Slice(s, i, Len(s))
    ELSE SubAuthorEchoAt(s, i, SetMin(M), AuthorGroupEnd(s, SetMin(M)))

\* re.sub(r'(\b[A-Z]{2,},\s*[A-Z]\.)\s*(\d{4})\s*\1', r'\1 \2', text) from
\* position i on
SubAuthorEcho(s, i) == SubAuthorEchoIn(s, i, AuthorEchoMatches(s, i))

\* GenericParser._clean_text: whitespace normalisation, then two rewrites of
\* author/year artefacts, then strip
_clean_text(s) ==
    Strip(SubAuthorEcho(SubGluedYear(CollapseSpaces(ReplaceNbsp(s)), 1), 1))

\* hashlib.sha1(raw.encode('utf-8')).hexdigest(): the digest is represented by
\* the tagged preimage, i.e. SHA-1 is taken to be free of collisions
Sha1(s) == <<"sha1", s>>

\* ------------------------------------------------------------------------
\* Citation texts of the blocks the model parses
\* ------------------------------------------------------------------------
\* a well formed article citation
TextArtigo ==
    <<"A", "B", ",", " ", "C", ".", " ", ".", " ", "T", "i", "t", "l", "e",
      " ", "o", "f", " ", "a", "r", "t", ".", " ", "J", "o", "u", "r", "n",
      "a", "l", ",", " ", "v", ".", " ", "1", ",", " ", "p", ".", " ", "1",
      "-", "5", ",", " ", "2", "0", "2", "4", ".">>

\* a well formed book chapter citation
TextCapitulo ==
    <<"A", "B", ",", " ", "C", ".", " ", ".", " ", "C", "h", "a", "p", " ",
      "t", "i", "t", "l", "e", ".", " ", "I", "n", ":", " ", "E", "D", ",",
      " ", "F", ".", " ", "(", "O", "r", "g", ".", ")", ".", " ", "B", "o",
      "o", "k", ".", " ", "1", "e", "d", ".", " ", "C", "i", "t", "y", ":",
      " ", "P", "u", "b", ",", " ", "2", "0", "2", "4", ",", " ", "p", ".",
      " ", "1", "-", "5", ".">>

\* both chapter tokens, no AUTHORS. TITLE. In: pattern (tests_legacy)
TextMalformed ==
    <<"A", "U", "T", "H", "O", "R", ".", " ", "I", "n", "c", "o", "m", "p",
      "l", "e", "t", "e", " ", "I", "n", ":", " ", "s", "o", "m", "e", "t",
      "h", "i", "n", "g", " ", "(", "O", "r", "g", ".", ")", " ", "b", "u",
      "t", " ", "m", "i", "s", "s", "i", "n", "g", " ", "s", "t", "r", "u",
      "c", "t", "u", "r", "e">>

\* a citation whose year is glued to an initial, in three text nodes
TextGluedA ==
    <<"A", "B", ",", " ", "C", ".", "2", "0", "2", "0", "D", "E", ",", " ",
      "F", ".", " ", ".", " ", "G", "l", "u", "e", "d", " ">>

TextGluedB ==
    <<"y", "e", "a", "r", "s">>

TextGluedC ==
    <<".", " ", "J", ",", " ", "2", "0", "2", "0", ".">>

\* a citation whose first author carries a year glued to the initial
\* (test_autores_without_years_in_generic)
TextYearAuthors ==
    <<"C", "O", "S", "T", "A", ",", " ", "M", ".", "2", "0", "2", "1", ";",
      " ", "L", "I", "M", "A", ",", " ", "R", ".", " ", ".", " ", "T", "r",
      "a", "b", "a", "l", "h", "o", " ", "t", "e", "c", "n", "i", "c", "o",
      ".", " ", "2", "0", "2", "1", ".">>

\* a citation whose title candidate is "TEST"
\* (test_filter_invalid_titles_and_renumber_for_bancas)
TextShortTitle ==
    <<"P", "E", "R", "E", "I", "R", "A", ",", " ", "C", ".", " ", ".", " ",
      "T", "E", "S", "T", " ", ".", " ", "2", "0", "2", "1", ".">>

\* ------------------------------------------------------------------------
\* Blocks of an HTML fragment
\*   shape  "wrapper": a div.artigo-completo holding cell-1 and cell-11
\*          "plain":   a div.layout-cell-1 followed by its div.layout-cell-11
\*   num    the <b> ordinal of cell-1: absent, an integer, or a digit run
\*          longer than int() converts (ValueError)
\*   cell11, span   the content cell and its span.transform are present
\*   nodes  the text nodes of the span
\*   fault  a field extractor raises on this block
\* A plain block always has its own cell-11 (find_next_sibling would
\* otherwise reach the cell of a later block).
\* ------------------------------------------------------------------------
\* a citation of two authors whose names have two characters and one
TextShortAuthors ==
    <<"A", "B", ";", " ", "C", " ", ".", " ", "T", "i", "t", "l", "e", " ",
      "h", "e", "r", "e", ".", " ", "J", ",", " ", "2", "0", "2", "0", ".">>

\* a citation whose title has UTF-8 bytes that were read as Latin-1
TextMojibake ==
    <<"S", "I", "L", "V", "A", ",", " ", "J", ".", " ", ".", " ", "J", "o",
      "A_tilde", "pound", "o", " ", "e", " ", "M", "a", "r", "i", "a", ".",
      " ", "R", "e", "v", "i", "s", "t", "a", ",", " ", "2", "0", "2", "4",
      ".">>

\* a citation of a chapter
TextChapter ==
    <<"A", "B", ",", " ", "C", ".", " ", ".", " ", "C", "h", "a", "p", " ",
      "t", "i", "t", "l", "e", ".", " ", "I", "n", ":", " ", "B", "o", "o",
      "k", " ", "n", "a", "m", "e", ".", " ", "2", "0", "2", "5", ".">>

\* a citation without a year, with an escaped ampersand
TextUndated ==
    <<"S", "O", "U", "Z", "A", ",", " ", "B", ".", " ", ".", " ", "S", "e",
      "m", " ", "d", "a", "t", "a", " ", "&", "a", "m", "p", ";", " ", "l",
      "o", "c", "a", "l", ".", " ", "R", "e", "v", "i", "s", "t", "a", ".">>

\* a text without author boundary: "Relato de campo 2023"
TextSparse ==
    <<"R", "e", "l", "a", "t", "o", " ", "d", "e", " ", "c", "a", "m", "p",
      "o", " ", "2", "0", "2", "3">>

\* a title in lower case, a second delimiter after it
TextLowerTitle ==
    <<"S", "I", "L", "V", "A", ",", " ", "A", ".", " ", ".", " ", "t", "i",
      "t", "l", "e", " ", "l", "o", "w", "e", "r", " ", ".", " ", "N", "e",
      "x", "t", " ", "T", "h", "i", "n", "g", ".", " ", "J", ",", " ", "2",
      "0", "2", "4", ".">>

NoNum == [kind |-> "none", val |-> 0]

HugeNum == [kind |-> "huge", val |-> 0]

IntNum(n) == [kind |-> "int", val |-> n]

KeyAbsent == [kind |-> "absent", val |-> 0]

\* a block: ano is the text of its span data-tipo-ordenacao="ano" and doi the
\* href of the a.icone-doi of its layout-cell-11, when it has them
Block(shape, num, cell11, span, nodes, fault) ==
    [shape |-> shape, num |-> num, cell11 |-> cell11, span |-> span,
     nodes |-> nodes, fault |-> fault, ano |-> NoText, doi |-> NoText]

WithYearField(b, ano_text) == [b EXCEPT !.ano = Text(ano_text)]

WithDoiLink(b, href) == [b EXCEPT !.doi = Text(href)]

GluedNodes == <<TextGluedA, TextGluedB, TextGluedC>>

BlockArtigo == Block("plain", IntNum(1), TRUE, TRUE, <<TextArtigo>>, FALSE)

BlockCapitulo == Block("plain", IntNum(2), TRUE, TRUE, <<TextCapitulo>>, FALSE)

BlockWrapped == Block("wrapper", IntNum(3), TRUE, TRUE, <<TextArtigo>>, FALSE)

BlockNoCell11 == Block("wrapper", IntNum(4), FALSE, FALSE, <<>>, FALSE)

BlockMalformed == Block("plain", IntNum(5), TRUE, TRUE, <<TextMalformed>>, FALSE)

BlockGlued == Block("plain", IntNum(6), TRUE, TRUE, GluedNodes, FALSE)

BlockNoNum == Block("plain", NoNum, TRUE, TRUE, <<TextArtigo>>, FALSE)

BlockHuge == Block("plain", HugeNum, TRUE, TRUE, <<TextCapitulo>>, FALSE)

BlockHugeWrapped == Block("wrapper", HugeNum, TRUE, TRUE, <<TextArtigo>>, FALSE)

BlockFault == Block("plain", IntNum(7), TRUE, TRUE, <<TextCapitulo>>, TRUE)

BlockFaultWrapped == Block("wrapper", IntNum(8), TRUE, TRUE, <<TextArtigo>>, TRUE)

BlockYearAuthors ==
    Block("plain", IntNum(9), TRUE, TRUE, <<TextYearAuthors>>, FALSE)

BlockShortTitle ==
    Block("plain", IntNum(10), TRUE, TRUE, <<TextShortTitle>>, FALSE)

\* a block whose <b> tag reads "0."
BlockZero == Block("plain", IntNum(0), TRUE, TRUE, <<TextArtigo>>, FALSE)

BlockSparse == Block("plain", IntNum(11), TRUE, TRUE, <<TextSparse>>, FALSE)

BlockSparseWrapped ==
    Block("wrapper", IntNum(12), TRUE, TRUE, <<TextSparse>>, FALSE)

BlockLowerTitle ==
    Block("plain", IntNum(13), TRUE, TRUE, <<TextLowerTitle>>, FALSE)

\* the href of a DOI anchor and the text of a year span
HrefDoi == <<"h", "t", "t", "p", "s", ":", "/", "/", "d", "o", "i", ".", "o", "r", "g", "/", "1", "0", ".", "1", "/", "x">>

AnoText == <<"2", "0", "2", "3">>

\* an article of 2024 with a DOI anchor and a year span that reads 2023, in
\* both shapes
BlockDated ==
    WithDoiLink(WithYearField(
        Block("plain", IntNum(14), TRUE, TRUE, <<TextArtigo>>, FALSE),
        AnoText), HrefDoi)

BlockDatedWrapped ==
    WithDoiLink(WithYearField(
        Block("wrapper", IntNum(15), TRUE, TRUE, <<TextArtigo>>, FALSE),
        AnoText), HrefDoi)

\* an article wrapper without span.transform
BlockNoSpan == Block("wrapper", IntNum(16), TRUE, FALSE, <<>>, FALSE)

\* blocks whose fields the parsers extract
CitationBlocks == {BlockSparse, BlockSparseWrapped, BlockLowerTitle,
                   BlockDated, BlockDatedWrapped, BlockNoSpan, BlockCapitulo}

Blocks == {BlockArtigo, BlockCapitulo, BlockWrapped, BlockNoCell11,
           BlockMalformed, BlockGlued, BlockNoNum, BlockHuge, BlockHugeWrapped,
           BlockFault, BlockFaultWrapped}

\* blocks that may be repeated RepMany times in a fragment
RepBlocks == {BlockNoCell11, BlockHuge}

\* blocks of the fixture files and profile sections
FixtureBlocks == {BlockCapitulo, BlockWrapped, BlockGlued, BlockHugeWrapped,
                  BlockZero, BlockYearAuthors, BlockShortTitle}

\* an entry of a fragment is a block and the number of consecutive copies
\* of it
Copies(b, n) == [i \in 1..n |-> b]

\* the blocks of a fragment in document order
Expand(d) == ConcatAll([i \in 1..Len(d) |-> Copies(d[i].block, d[i].count)])

\* ------------------------------------------------------------------------
\* The field heuristics of GenericParser, on the cleaned text of a span
\* (a single line: "." of a pattern matches every character of it)
\* ------------------------------------------------------------------------
\* [A-ZÀ-Ú]
IsUpperLatin(c) == IsUpper(c) \/ c \in AccentedUpper

\* r'\s+\.\s+' from its "." on, expected at q: the end of the match
\* (exclusive), 0 if it fails
DelimiterDot(s, q) ==
    IF At(s, q) = "." /\ IsSpace(At(s, q + 1)) THEN SkipSpaces(s, q + 1) ELSE 0

\* r'\s+\.\s+' matched at i: the end of the match (exclusive), 0 if none
DelimiterEnd(s, i) ==
    IF IsSpace(At(s, i)) THEN DelimiterDot(s, SkipSpaces(s, i)) ELSE 0

\* the positions where r'\s+\.\s+' matches
Delimiters(s) == {i \in 1..Len(s) : DelimiterEnd(s, i) # 0}

\* r'^(.+?)\s+\.\s+[A-ZÀ-Ú]': the ends g of the candidates s[1..g] of group 1
AuthorsEnds(s) ==
    {g \in 1..Len(s) :
        /\ DelimiterEnd(s, g + 1) # 0
        /\ IsUpperLatin(At(s, DelimiterEnd(s, g + 1)))}

\* the author names kept: each piece cleaned, those of more than 2
\* characters kept (the pieces of a text node hold no tag to remove)
GenericAuthors(pieces) ==
    ConcatAll([i \in 1..Len(pieces) |->
                 IF Len(_clean_text(pieces[i])) > 2
                 THEN <<_clean_text(pieces[i])>> ELSE <<>>])

\* '; '.join(autores_list) if autores_list, else None
JoinedAuthors(autores_list) ==
    IF autores_list = <<>> THEN NoText
    ELSE Text(JoinWords(autores_list, <<";", " ">>))

\* the authors of a text whose group 1 candidates end at the positions E
GenericAuthorsIn(s, E) ==
    IF E = {} THEN NoText
    ELSE JoinedAuthors(GenericAuthors(Split(Slice(s, 1, SetMin(E)), <<";">>)))

\* GenericParser._extract_autores_heuristic on a span whose cleaned text is s
_extract_autores_heuristic(s) == GenericAuthorsIn(s, AuthorsEnds(s))

\* r'^([^.]+)\.' on the text from e on, d being the first "." there: the
\* title when it is longer than 10 characters
GenericTitle(s, e, d) ==
    IF d > e /\ d <= Len(s) /\ Len(_clean_text(Slice(s, e, d - 1))) > 10
    THEN Text(_clean_text(Slice(s, e, d - 1)))
    ELSE NoText

\* the title of the text after the delimiter that ends at e (exclusive)
GenericTitleFrom(s, e) == GenericTitle(s, e, NextDot(s, e))

\* the title of a text, D being the positions where the delimiter matches
GenericTitleIn(s, D) ==
    IF D = {} THEN NoText ELSE GenericTitleFrom(s, DelimiterEnd(s, SetMin(D)))

\* GenericParser._extract_titulo_heuristic
_extract_titulo_heuristic(s) == GenericTitleIn(s, Delimiters(s))

\* ------------------------------------------------------------------------
\* parsers/utils.py: clean_autores
\* ------------------------------------------------------------------------
\* the entity at i that html.unescape replaces, <<>> when there is none:
\* of the named references, amp, lt and gt are modelled, with or without
\* their ";"
EntityAt(s, i) ==
    IF At(s, i) # "&" THEN <<>>
    ELSE IF MatchAt(s, <<"a", "m", "p">>, i + 1) THEN <<"&", "a", "m", "p">>
    ELSE IF MatchAt(s, <<"l", "t">>, i + 1) THEN <<"&", "l", "t">>
    ELSE IF MatchAt(s, <<"g", "t">>, i + 1) THEN <<"&", "g", "t">>
    ELSE <<>>

\* the character an entity stands for
EntityChar(e) ==
    CASE e = <<"&", "a", "m", "p">> -> "&"
      [] e = <<"&", "l", "t">> -> "<"
      [] e = <<"&", "g", "t">> -> ">"

\* the end (exclusive) of the entity e found at i, its ";" included
EntityEnd(s, i, e) ==
    IF At(s, i + Len(e)) = ";" THEN i + Len(e) + 1 ELSE i + Len(e)

\* is position j inside an entity that starts before it
InEntity(s, j) ==
    \E i \in (j - 4)..(j - 1) :
        EntityAt(s, i) # <<>> /\ j < EntityEnd(s, i, EntityAt(s, i))

\* html.unescape(s): one pass, what an entity yields is not read again
Unescape(s) ==
    ConcatAll([j \in 1..Len(s) |->
                 IF InEntity(s, j) THEN <<>>
                 ELSE IF EntityAt(s, j) # <<>>
                 THEN <<EntityChar(EntityAt(s, j))>>
                 ELSE <<s[j]>>])

\* r'<[^>]+>' at i: the end of the match (inclusive), 0 if none
TagEnd(s, i) ==
    IF At(s, i) = "<" /\ At(s, i + 1) # ">" /\ NextOf(s, ">", i + 1) <= Len(s)
    THEN NextOf(s, ">", i + 1) ELSE 0

\* re.sub(r'<[^>]+>', '', s)
RemoveTags(s) ==
    ConcatAll([j \in 1..Len(s) |->
                 IF \E i \in 1..j : j <= TagEnd(s, i) THEN <<>> ELSE <<s[j]>>])

\* (19\d{2}|20\d{2}) at d
YearAt(s, d) ==
    /\ MatchAt(s, <<"1", "9">>, d) \/ MatchAt(s, <<"2", "0">>, d)
    /\ IsDigit(At(s, d + 2))
    /\ IsDigit(At(s, d + 3))

\* r'([A-Z]\.)\s*(19\d{2}|20\d{2})' at i: the end of the match (exclusive),
\* 0 if none
InitialYearEnd(s, i) ==
    IF IsUpper(At(s, i)) /\ At(s, i + 1) = "." /\ YearAt(s, SkipSpaces(s, i + 2))
    THEN SkipSpaces(s, i + 2) + 4 ELSE 0

\* re.sub(r'([A-Z]\.)\s*(19\d{2}|20\d{2})', r'\1', s): what follows the
\* initial in a match is dropped
StripGluedYears(s) ==
    ConcatAll([j \in 1..Len(s) |->
                 IF \E i \in 1..(j - 2) : j < InitialYearEnd(s, i)
                 THEN <<>> ELSE <<s[j]>>])

\* r'\b(19\d{2}|20\d{2})\b' at d
YearToken(s, d) ==
    YearAt(s, d) /\ ~IsWord(At(s, d - 1)) /\ ~IsWord(At(s, d + 4))

\* re.sub(r'\b(19\d{2}|20\d{2})\b', '', s)
StripYearTokens(s) ==
    ConcatAll([j \in 1..Len(s) |->
                 IF \E d \in (j - 3)..j : YearToken(s, d)
                 THEN <<>> ELSE <<s[j]>>])

\* \s*(19\d{2}|20\d{2})\s*\1 after group 1 = s[i..g], the year expected at d
YearEchoFrom(s, i, g, d) ==
    IF YearAt(s, d) THEN AuthorEchoAt(s, i, g, SkipSpaces(s, d + 4)) ELSE 0

\* r'(\b[A-Z]{2,},\s*[A-Z]\.)\s*(19\d{2}|20\d{2})\s*\1' at i, g being the end
\* of group 1 there: the end of the match (exclusive), 0 if none
YearEchoAfter(s, i, g) ==
    IF g = 0 THEN 0 ELSE YearEchoFrom(s, i, g, SkipSpaces(s, g + 1))

YearEchoEnd(s, i) == YearEchoAfter(s, i, AuthorGroupEnd(s, i))

RECURSIVE StripYearEcho(_, _)

\* the text from i on, j being the leftmost match in it, 0 if there is none:
\* the match leaves its group 1
StripYearEchoAt(s, i, j) ==
    IF j = 0 THEN Slice(s, i, Len(s))
    ELSE Slice(s, i, AuthorGroupEnd(s, j)) \o StripYearEcho(s, YearEchoEnd(s, j))

\* re.sub(r'(\b[A-Z]{2,},\s*[A-Z]\.)\s*(19\d{2}|20\d{2})\s*\1', r'\1', s)
\* from position i on
StripYearEcho(s, i) ==
    StripYearEchoAt(s, i, LeastOr({j \in i..Len(s) : YearEchoEnd(s, j) # 0}, 0))

\* re.sub(r'\s*;\s*', '; ', s) on a text whose whitespace runs are single
\* spaces
SpaceSemicolons(s) ==
    ConcatAll([j \in 1..Len(s) |->
                 IF s[j] = ";" THEN <<";", " ">>
                 ELSE IF IsSpace(s[j]) /\ (At(s, j + 1) = ";" \/ At(s, j - 1) = ";")
                 THEN <<>>
                 ELSE <<s[j]>>])

\* s.strip(chars): the positions of s holding a character outside chars
Outside(s, chars) == {j \in 1..Len(s) : s[j] \notin chars}

StripChars(s, chars) ==
    IF Outside(s, chars) = {} THEN <<>>
    ELSE Slice(s, SetMin(Outside(s, chars)), SetMax(Outside(s, chars)))

\* clean_autores(raw_autores)
clean_autores(raw_autores) ==
    StripChars(
        SpaceSemicolons(Strip(CollapseSpaces(
            StripYearEcho(StripYearTokens(StripGluedYears(
                ReplaceNbsp(RemoveTags(Unescape(raw_autores))))), 1)))),
        {" ", ";"})

\* ------------------------------------------------------------------------
\* parsers/utils.py: split_citacao
\* ------------------------------------------------------------------------
TokenDelimiter == <<" ", ".", " ">>

TokenDotSpace == <<".", " ">>

TokenIn == <<"I", "n", ":">>

\* [part.strip() for part in pieces if part.strip()]
StrippedParts(pieces) ==
    ConcatAll([i \in 1..Len(pieces) |->
                 IF Strip(pieces[i]) = <<>> THEN <<>> ELSE <<Strip(pieces[i])>>])

\* r'^(.+?)\.\s+[A-ZÀ-Ú]{2,}': the ends g of the candidates s[1..g] of group 1
LoneAuthorsEnds(s) ==
    {g \in 1..Len(s) :
        /\ \A j \in 1..g : s[j] # "\n"
        /\ At(s, g + 1) = "."
        /\ IsSpace(At(s, g + 2))
        /\ IsUpperLatin(At(s, SkipSpaces(s, g + 2)))
        /\ IsUpperLatin(At(s, SkipSpaces(s, g + 2) + 1))}

\* autores_raw of a citation of one part, E being the ends of the candidates
LoneAuthors(raw, part, E) ==
    IF E = {} THEN part ELSE Strip(Slice(raw, 1, SetMin(E)))

\* r'(?<=\s)\b(19\d{2}|20\d{2})\b(?=\s*(?:;|,|$))' at d
TrailingYear(s, d) ==
    /\ YearAt(s, d)
    /\ IsSpace(At(s, d - 1))
    /\ ~IsWord(At(s, d + 4))
    /\ At(s, SkipSpaces(s, d + 4)) \in {";", ",", None}

\* re.sub of that pattern by ''
StripTrailingYears(s) ==
    ConcatAll([j \in 1..Len(s) |->
                 IF \E d \in (j - 3)..j : TrailingYear(s, d)
                 THEN <<>> ELSE <<s[j]>>])

\* the last position of s that holds no ".", 0 if none
RightmostOutside(s) ==
    IF Outside(s, {"."}) = {} THEN 0 ELSE SetMax(Outside(s, {"."}))

\* s.rstrip('.')
RStripDots(s) == Slice(s, 1, RightmostOutside(s))

\* the cleaning of autores_raw
CitationAuthors(autores_raw) ==
    Strip(RStripDots(Strip(CollapseSpaces(StripTrailingYears(StripGluedYears(
        Replace(autores_raw, <<" ", ";", " ">>, <<";", " ">>)))))))

\* r'\s\.\s' at i
SpacedDot(s, i) == IsSpace(At(s, i)) /\ At(s, i + 1) = "." /\ IsSpace(At(s, i + 2))

\* r'\s\.\s(.*?)\s\.\s' matched at i with its second delimiter at k
BetweenDots(s, i, k) ==
    /\ SpacedDot(s, i)
    /\ SpacedDot(s, k)
    /\ \A j \in (i + 3)..(k - 1) : s[j] # "\n"

\* the places where that pattern matches
BetweenStarts(s) ==
    {i \in 1..Len(s) : \E k \in (i + 3)..Len(s) : BetweenDots(s, i, k)}

\* group 1 of the match at i, stripped of whitespace and then of "."
BetweenTitle(s, i) ==
    StripChars(
        Strip(Slice(s, i + 3,
                    SetMin({k \in (i + 3)..Len(s) : BetweenDots(s, i, k)}) - 1)),
        {"."})

\* r'\.\s+([^.]+?)\.' at d: whitespace after the "." and a later "."
SentenceAt(s, d) ==
    /\ At(s, d) = "."
    /\ IsSpace(At(s, d + 1))
    /\ NextDot(s, d + 1) <= Len(s)
    /\ NextDot(s, d + 1) >= d + 3

RECURSIVE SentenceTitle(_, _)

\* the candidate of the match at d if longer than 10 characters, otherwise
\* what the matches after it give; d is 0 when there is no match
SentenceTitleAt(s, d) ==
    IF d = 0 THEN <<>>
    ELSE IF Len(Strip(Slice(s, d + 1, NextDot(s, d + 1) - 1))) > 10
    THEN Strip(Slice(s, d + 1, NextDot(s, d + 1) - 1))
    ELSE SentenceTitle(s, NextDot(s, d + 1) + 1)

\* the loop over re.finditer(r'\.\s+([^.]+?)\.', raw) from position i on
SentenceTitle(s, i) ==
    SentenceTitleAt(s, LeastOr({d \in i..Len(s) : SentenceAt(s, d)}, 0))

\* the title when titulo_raw is empty, B being the places where
\* r'\s\.\s(.*?)\s\.\s' matches
FallbackTitle(raw, B) ==
    IF B # {} THEN BetweenTitle(raw, SetMin(B)) ELSE SentenceTitle(raw, 1)

\* titulo before the split of a title that holds the venue
FirstTitle(raw, titulo_raw) ==
    IF titulo_raw # <<>> THEN StripChars(Strip(titulo_raw), {"."})
    ELSE FallbackTitle(raw, BetweenStarts(raw))

\* the first place at or after i where p occurs in s, Len(s) + 1 if none
Find(s, p, i) == LeastOr({j \in i..Len(s) : MatchAt(s, p, j)}, Len(s) + 1)

\* raw_text.split(titulo, 1)[1].lstrip('. ').strip()
Remainder(raw, titulo) ==
    Strip(Slice(raw,
                LeastOr({j \in (Find(raw, titulo, 1) + Len(titulo))..Len(raw) :
                            raw[j] \notin {".", " "}}, Len(raw) + 1),
                Len(raw)))

\* r'In:\s*([^,\.]+)' at i
InAt(s, i) ==
    /\ MatchAt(s, TokenIn, i)
    /\ i + 3 <= Len(s)
    /\ s[i + 3] \notin {",", "."}

\* first position at or after i holding "," or ".", Len(s) + 1 if none
NextStop(s, i) == LeastOr({j \in i..Len(s) : s[j] \in {",", "."}}, Len(s) + 1)

\* group 1 of the match of r'In:\s*([^,\.]+)' at i, stripped of whitespace and
\* then of "."
InVenue(s, i) ==
    StripChars(Strip(Slice(s, i + 3, NextStop(s, SkipSpaces(s, i + 3)) - 1)), {"."})

\* veiculo_ou_livro
CitationVenue(raw, resto_raw, I) ==
    IF I # {} THEN InVenue(raw, SetMin(I))
    ELSE IF resto_raw = <<>> THEN <<>>
    ELSE StripChars(Strip(Slice(resto_raw, 1, NextOf(resto_raw, ",", 1) - 1)), {"."})

\* the tuple split_citacao returns
Citation(raw, autores, titulo, resto_raw) ==
    [autores |-> autores, titulo |-> titulo,
     veiculo_ou_livro |->
        CitationVenue(raw, resto_raw, {i \in 1..Len(raw) : InAt(raw, i)})]

\* titulo_raw.split('. ', 1) at the first ". " of titulo_raw, at k: both
\* candidates non-empty, the title holds the venue
SplitTitle(raw, autores, titulo_raw, titulo, k) ==
    IF k > 1 /\ k + 2 <= Len(titulo_raw)
    THEN Citation(raw, autores,
                  StripChars(Strip(Slice(titulo_raw, 1, k - 1)), {"."}),
                  Strip(Slice(titulo_raw, k + 2, Len(titulo_raw))))
    ELSE Citation(raw, autores, titulo, <<>>)

\* the rest of split_citacao once autores and titulo are known
Assemble(raw, autores, titulo_raw, titulo, resto_raw) ==
    IF titulo_raw # <<>> /\ resto_raw = <<>> /\ Contains(titulo_raw, TokenDotSpace)
    THEN SplitTitle(raw, autores, titulo_raw, titulo,
                    Find(titulo_raw, TokenDotSpace, 1))
    ELSE IF titulo # <<>> /\ resto_raw = <<>> /\ Contains(raw, titulo)
    THEN Citation(raw, autores, titulo, Remainder(raw, titulo))
    ELSE Citation(raw, autores, titulo, resto_raw)

\* split_citacao on a citation whose non-empty stripped parts are parts
SplitParts(raw, parts) ==
    Assemble(raw,
             CitationAuthors(
                 IF Len(parts) = 1
                 THEN LoneAuthors(raw, parts[1], LoneAuthorsEnds(raw))
                 ELSE IF Len(parts) >= 1 THEN parts[1] ELSE <<>>),
             IF Len(parts) >= 2 THEN parts[2] ELSE <<>>,
             FirstTitle(raw, IF Len(parts) >= 2 THEN parts[2] ELSE <<>>),
             IF Len(parts) >= 3
             THEN Strip(JoinWords(SubSeq(parts, 3, Len(parts)), TokenDelimiter))
             ELSE <<>>)

\* split_citacao(raw): autores, titulo and veiculo_ou_livro, empty strings for
\* what is not found
split_citacao(raw) ==
    IF raw = <<>>
    THEN [autores |-> <<>>, titulo |-> <<>>, veiculo_ou_livro |-> <<>>]
    ELSE SplitParts(raw, StrippedParts(Split(raw, TokenDelimiter)))

\* ------------------------------------------------------------------------
\* The field extraction of ArtigoParser, on the cleaned text of a span
\* ------------------------------------------------------------------------
\* ArtigoParser._normalize_author_name
_normalize_author_name(name) == clean_autores(clean_text(RemoveTags(name)))

\* the author names kept: each piece normalised, those of more than 2
\* characters kept
ArtigoAuthors(pieces) ==
    ConcatAll([i \in 1..Len(pieces) |->
                 IF Len(_normalize_author_name(pieces[i])) > 2
                 THEN <<_normalize_author_name(pieces[i])>> ELSE <<>>])

\* clean_autores(cleaned) if cleaned, else None
CleanedAuthors(autores_list) ==
    IF autores_list = <<>> THEN NoText
    ELSE Text(clean_autores(JoinWords(autores_list, <<";", " ">>)))

\* the authors of a text whose group 1 candidates end at the positions E
ArtigoAuthorsIn(texto, E) ==
    IF E = {} THEN NoText
    ELSE CleanedAuthors(ArtigoAuthors(Split(Slice(texto, 1, SetMin(E)), <<";">>)))

\* ArtigoParser._extract_autores
_extract_autores(texto) == ArtigoAuthorsIn(texto, AuthorsEnds(texto))

\* the text after the first r'\s+\.\s+' of texto, all of texto when there is
\* none (the elif branch needs the same delimiter and changes nothing), D
\* being the positions where the delimiter matches
AfterDelimiter(texto, D) ==
    IF D = {} THEN texto
    ELSE Slice(texto, DelimiterEnd(texto, SetMin(D)), Len(texto))

texto_sem_autores(texto) == AfterDelimiter(texto, Delimiters(texto))

\* [\d\-—–]
IsPageChar(c) == IsDigit(c) \/ c \in {"-", "emdash", "endash"}

\* r'\s*p\.\s*([\d\-—–]+)' expected at q
PagesAt(r, q) ==
    /\ MatchAt(r, <<"p", ".">>, SkipSpaces(r, q))
    /\ IsPageChar(At(r, SkipSpaces(r, SkipSpaces(r, q) + 2)))

\* first position at or after i holding whitespace, Len(r) + 1 if none
NextSpace(r, i) == LeastOr({j \in i..Len(r) : IsSpace(r[j])}, Len(r) + 1)

\* r'(\S+),\s*p\.\s*([\d\-—–]+)' with group 3 starting at a
VolumeAt(r, a) ==
    \E k \in (a + 1)..(NextSpace(r, a) - 1) : r[k] = "," /\ PagesAt(r, k + 1)

\* r',\s*v\.\s*(\S+),\s*p\.\s*([\d\-—–]+)' with its first "," at c
VenueTail(r, c) ==
    /\ At(r, c) = ","
    /\ MatchAt(r, <<"v", ".">>, SkipSpaces(r, c + 1))
    /\ VolumeAt(r, SkipSpaces(r, SkipSpaces(r, c + 1) + 2))

\* r'^(.+?)\.\s*([^,]+),\s*v\.\s*(\S+),\s*p\.\s*([\d\-—–]+)': the places d of the
\* "." after group 1 at which the pattern matches
MetadataDots(r) ==
    {d \in 2..Len(r) :
        /\ r[d] = "."
        /\ NextOf(r, ",", d + 1) >= d + 2
        /\ VenueTail(r, NextOf(r, ",", d + 1))}

\* the four replace calls on a venue
VenueEntities(v) ==
    Replace(
        Replace(
            Replace(
                Replace(v, <<"&", "a", "m", "p", ";">>, <<"&">>),
                <<"&", "l", "t", ";">>, <<"<">>),
            <<"&", "g", "t", ";">>, <<">">>),
        <<"&", "q", "u", "o", "t", ";">>, <<"\"">>)

\* where group 3 starts when the "." after group 1 is at d
VolumeStart(r, d) == SkipSpaces(r, SkipSpaces(r, NextOf(r, ",", d + 1) + 1) + 2)

\* the "," after group 3, which is greedy, when it starts at a
VolumeEnd(r, a) ==
    SetMax({k \in (a + 1)..(NextSpace(r, a) - 1) :
               r[k] = "," /\ PagesAt(r, k + 1)})

\* where group 4 starts when the "," before it is at k, and where it ends
PagesStart(r, k) == SkipSpaces(r, SkipSpaces(r, k + 1) + 2)

PagesEnd(r, q) == LeastOr({j \in q..Len(r) : ~IsPageChar(r[j])}, Len(r) + 1) - 1

\* match.group(3).strip() and match.group(4).strip()
Volume(r, a) == Text(Strip(Slice(r, a, VolumeEnd(r, a) - 1)))

Pages(r, q) == Text(Strip(Slice(r, q, PagesEnd(r, q))))

\* the pattern matched with the "." after group 1 at d
MainMetadata(r, d) ==
    [titulo |-> Text(clean_text(Slice(r, 1, d - 1))),
     veiculo |-> Text(VenueEntities(
                    clean_text(Slice(r, d + 1, NextOf(r, ",", d + 1) - 1)))),
     volume |-> Volume(r, VolumeStart(r, d)),
     paginas |-> Pages(r, PagesStart(r, VolumeEnd(r, VolumeStart(r, d))))]

\* r'(?:\.\s+[A-ZÀ-Ú]|,\s*v\.|\.\s*$)' at p: the end of the match (exclusive),
\* 0 if none
TitleStopEnd(r, p) ==
    IF At(r, p) = "." /\ IsSpace(At(r, p + 1))
          /\ IsUpperLatin(At(r, SkipSpaces(r, p + 1)))
    THEN SkipSpaces(r, p + 1) + 1
    ELSE IF At(r, p) = "," /\ MatchAt(r, <<"v", ".">>, SkipSpaces(r, p + 1))
    THEN SkipSpaces(r, p + 1) + 2
    ELSE IF At(r, p) = "." /\ SkipSpaces(r, p + 1) > Len(r)
    THEN Len(r) + 1
    ELSE 0

\* r'^(.+?)(?:\.\s+[A-ZÀ-Ú]|,\s*v\.|\.\s*$)': the places where group 1 can stop
TitleStops(r) == {p \in 2..Len(r) : TitleStopEnd(r, p) # 0}

\* s.lstrip('.')
LStripDots(s) == Slice(s, LeastOr({j \in 1..Len(s) : s[j] # "."}, Len(s) + 1), Len(s))

\* r'^\.?\s*([^,]+)' on resto, w being the place after the optional "." and
\* the whitespace: the venue, None when resto is empty or begins with ","
VenueFrom(resto, w) ==
    IF resto = <<>> \/ resto[1] = "," THEN NoText
    ELSE IF NextOf(resto, ",", w) > w
    THEN Text(VenueEntities(clean_text(
             LStripDots(Slice(resto, w, NextOf(resto, ",", w) - 1)))))
    ELSE Text(<<>>)

\* the venue of the text left after the title match
VenueOf(resto) ==
    VenueFrom(resto, SkipSpaces(resto, IF At(resto, 1) = "." THEN 2 ELSE 1))

\* the fallback pattern matched with group 1 stopping before p
FallbackMetadata(r, p) ==
    [titulo |-> Text(clean_text(Slice(r, 1, p - 1))),
     veiculo |-> VenueOf(Strip(Slice(r, TitleStopEnd(r, p), Len(r)))),
     volume |-> NoText,
     paginas |-> NoText]

\* last resort: the first sentence as title
FirstSentence(r) ==
    [titulo |-> Text(clean_text(Slice(r, 1, NextDot(r, 1) - 1))),
     veiculo |-> NoText,
     volume |-> NoText,
     paginas |-> NoText]

\* title and venue of the text r after the authors, M and S being the
\* places where the two patterns match
MetadataOf(r, M, S) ==
    IF M # {} THEN MainMetadata(r, SetMin(M))
    ELSE IF S # {} THEN FallbackMetadata(r, SetMin(S))
    ELSE FirstSentence(r)

MetadataIn(r) == MetadataOf(r, MetadataDots(r), TitleStops(r))

\* ArtigoParser._extract_metadata: titulo, veiculo, volume and paginas
_extract_metadata(texto) == MetadataIn(texto_sem_autores(texto))

\* ------------------------------------------------------------------------
\* The year of a text
\* ------------------------------------------------------------------------
DigitSeq == <<"0", "1", "2", "3", "4", "5", "6", "7", "8", "9">>

DigitOf(c) == CHOOSE v \in 0..9 : DigitSeq[v + 1] = c

RECURSIVE IntOf(_)

\* int(s), s a string of digits
IntOf(s) ==
    IF s = <<>> THEN 0
    ELSE 10 * IntOf(SubSeq(s, 1, Len(s) - 1)) + DigitOf(s[Len(s)])

\* s.isdigit()
IsDigits(s) == s # <<>> /\ \A i \in 1..Len(s) : IsDigit(s[i])

\* no year
NoYear == [found |-> FALSE, year |-> 0]

Year(n) == [found |-> TRUE, year |-> n]

\* int(matches[-1]) of re.findall(r'\b(?:19|20)\d{2}\b', raw), T being where
\* the pattern matches
LastYear(raw, T) ==
    IF T = {} THEN NoYear ELSE Year(IntOf(SubSeq(raw, SetMax(T), SetMax(T) + 3)))

YearInRaw(raw) == LastYear(raw, {d \in 1..Len(raw) : YearToken(raw, d)})

\* ArtigoParser._extract_ano_from_text, GenericParser._extract_ano_heuristic
_extract_ano_from_text(text) == YearInRaw(text)

\* int(match.group(1)) of re.search(r'(\d{4})', ano_text), D being where
\* four digits stand
FirstDigits(ano_text, D) ==
    IF D = {} THEN NoYear
    ELSE Year(IntOf(SubSeq(ano_text, SetMin(D), SetMin(D) + 3)))

\* ArtigoParser._extract_ano: the year of the span data-tipo-ordenacao="ano"
\* of the block, None without the span
_extract_ano(b) ==
    IF ~b.ano.found THEN NoYear
    ELSE FirstDigits(Strip(b.ano.value),
                     {d \in 1..Len(Strip(b.ano.value)) :
                         FourDigits(Strip(b.ano.value), d)})

DoiPrefixes ==
    {<<"h", "t", "t", "p", ":", "/", "/", "d", "o", "i", ".", "o", "r", "g", "/">>,
     <<"h", "t", "t", "p", "s", ":", "/", "/", "d", "o", "i", ".", "o", "r", "g", "/">>,
     <<"h", "t", "t", "p", ":", "/", "/", "d", "x", ".", "d", "o", "i", ".", "o", "r", "g", "/">>,
     <<"h", "t", "t", "p", "s", ":", "/", "/", "d", "x", ".", "d", "o", "i", ".", "o", "r", "g", "/">>}

\* re.sub(r'^https?://(dx\.)?doi\.org/', '', href), P being the prefixes
\* href begins with
WithoutDoiPrefix(href, P) ==
    IF P = {} THEN href
    ELSE Slice(href, 1 + Len(CHOOSE q \in P : TRUE), Len(href))

\* doi.strip() if doi else None
StrippedDoi(doi) == IF doi = <<>> THEN NoText ELSE Text(Strip(doi))

\* ArtigoParser._extract_doi, GenericParser._extract_doi_heuristic
_extract_doi(b) ==
    IF ~b.doi.found \/ b.doi.value = <<>> THEN NoText
    ELSE StrippedDoi(WithoutDoiPrefix(b.doi.value,
                        {q \in DoiPrefixes : MatchAt(b.doi.value, q, 1)}))

\* CapituloParser._extract_ano: r',\s+(\d{4}),' with its first "," at c
ChapterYearAt(s, c) ==
    /\ At(s, c) = ","
    /\ IsSpace(At(s, c + 1))
    /\ FourDigits(s, SkipSpaces(s, c + 1))
    /\ At(s, SkipSpaces(s, c + 1) + 4) = ","

ChapterYearIn(s, C) ==
    IF C = {} THEN NoYear
    ELSE Year(IntOf(SubSeq(s, SkipSpaces(s, SetMin(C) + 1),
                           SkipSpaces(s, SetMin(C) + 1) + 3)))

_extract_ano_capitulo(texto) ==
    ChapterYearIn(texto, {c \in 1..Len(texto) : ChapterYearAt(texto, c)})

Months ==
    {<<"j", "a", "n">>, <<"f", "e", "v">>, <<"m", "a", "r">>,
     <<"a", "b", "r">>, <<"m", "a", "i">>, <<"j", "u", "n">>,
     <<"j", "u", "l">>, <<"a", "g", "o">>, <<"s", "e", "t">>,
     <<"o", "u", "t">>, <<"n", "o", "v">>, <<"d", "e", "z">>}

\* an ASCII letter in lower case (re.IGNORECASE)
FoldCase(c) ==
    IF c \in UpperSet THEN LowerSeq[CHOOSE i \in 1..26 : UpperSeq[i] = c]
    ELSE c

\* r'(jan|...|dez)\.\s+(\d{4})' at i, whatever the case
MonthYearAt(s, i) ==
    /\ <<FoldCase(At(s, i)), FoldCase(At(s, i + 1)), FoldCase(At(s, i + 2))>>
          \in Months
    /\ At(s, i + 3) = "."
    /\ IsSpace(At(s, i + 4))
    /\ FourDigits(s, SkipSpaces(s, i + 4))

\* the year of _extract_data: that of the first month with a year, else the
\* last year of the text
DataIn(texto, M) ==
    IF M = {} THEN YearInRaw(texto)
    ELSE Year(IntOf(SubSeq(texto, SkipSpaces(texto, SetMin(M) + 4),
                           SkipSpaces(texto, SetMin(M) + 4) + 3)))

\* TextoJornalParser._extract_data, the year
_extract_data(texto) ==
    DataIn(texto, {i \in 1..Len(texto) : MonthYearAt(texto, i)})

\* ------------------------------------------------------------------------
\* The parsers: what one pass of the loop does with one block
\* ------------------------------------------------------------------------
\* the fields every parser gives an item
Item(n, raw) ==
    [numero_item |-> n, raw |-> raw, fingerprint_sha1 |-> Sha1(raw)]

NoItem == Item(0, <<>>)

\* the item GenericParser builds from a block numbered n whose cleaned text
\* is raw: the heuristic fields are computed from that text
GenericItem(n, raw) ==
    [numero_item |-> n, raw |-> raw,
     autores |-> _extract_autores_heuristic(raw),
     titulo |-> _extract_titulo_heuristic(raw),
     ano |-> _extract_ano_from_text(raw),
     fingerprint_sha1 |-> Sha1(raw)]

\* the item ArtigoParser builds: authors, title, venue, volume and pages are
\* computed from the cleaned text; ano and doi are what the caller found
ArtigoItem(n, raw, ano, doi) ==
    [numero_item |-> n, raw |-> raw,
     autores |-> _extract_autores(raw),
     titulo |-> _extract_metadata(raw).titulo,
     ano |-> ano,
     veiculo |-> _extract_metadata(raw).veiculo,
     volume |-> _extract_metadata(raw).volume,
     paginas |-> _extract_metadata(raw).paginas,
     doi |-> doi,
     fingerprint_sha1 |-> Sha1(raw)]

\* ------------------------------------------------------------------------
\* batch_full_profile.py: the values of a researcher record
\* ------------------------------------------------------------------------
\* a str
JStr(s) == [str |-> s]

\* an int
JInt(n) == [int |-> n]

JNone == [none |-> TRUE]

\* a hexadecimal digest, a str of the characters 0-9 and a-f
JHex(h) == [hex |-> h]

\* a list
JList(l) == [list |-> l]

\* a dict, d a function from its keys
JDict(d) == [dict |-> d]

IsStr(x) == DOMAIN x = {"str"}

IsInt(x) == DOMAIN x = {"int"}

IsList(x) == DOMAIN x = {"list"}

IsDict(x) == DOMAIN x = {"dict"}

\* the truth value of x
Truthy(x) ==
    \/ IsStr(x) /\ x.str # <<>>
    \/ IsInt(x) /\ x.int # 0
    \/ IsList(x) /\ x.list # <<>>
    \/ IsDict(x) /\ DOMAIN x.dict # {}
    \/ DOMAIN x = {"hex"}

\* d.get(key)
Get(d, key) == IF key \in DOMAIN d.dict THEN d.dict[key] ELSE JNone

\* d[key] = value
Put(d, key, value) ==
    JDict([k \in DOMAIN d.dict \cup {key} |->
             IF k = key THEN value ELSE d.dict[k]])

\* d.get(key) or '', for a key that holds a str or None
GetText(d, key) == IF Truthy(Get(d, key)) THEN Get(d, key).str ELSE <<>>

\* the value of an optional field of a parser
Optional(t) == IF t.found THEN JStr(t.value) ELSE JNone

FieldValue(key, v) ==
    CASE key = "numero_item" -> JInt(v)
      [] key = "raw" -> JStr(v)
      [] key = "fingerprint_sha1" -> JHex(v)
      [] key = "ano" -> IF v.found THEN JInt(v.year) ELSE JNone
      [] OTHER -> Optional(v)

\* the dict of an item of a parser
ItemDict(item) == JDict([key \in DOMAIN item |-> FieldValue(key, item[key])])

\* ------------------------------------------------------------------------
\* batch_full_profile.py: add_provenance_to_items
\* ------------------------------------------------------------------------
\* the characters of "Artigos"
LabelArtigos == <<"A", "r", "t", "i", "g", "o", "s">>

SectionLabels == {LabelArtigos}

\* the characters of "Produções"
LabelProducoes ==
    <<"P", "r", "o", "d", "u", "c_cedilla", "o_tilde", "e", "s">>

\* _normalize_section_label(label): ' '.join(str(label).split())
_normalize_section_label(section_title) ==
    IF section_title = <<>> THEN <<>> ELSE Strip(CollapseSpaces(section_title))

\* section_label in process_researcher_file, 'Produções' standing for an
\* empty one
SectionLabel(section_title) ==
    IF _normalize_section_label(section_title) = <<>> THEN LabelProducoes
    ELSE _normalize_section_label(section_title)

\* the name of the profile file, standing for its characters
SourceFile == <<"p", "e", "r", "f", "i", "l", ".", "h", "t", "m", "l">>

\* current_type not in (None, ''), for a key that holds a str or None
HasLabel(d, key) == Truthy(Get(d, key))

\* _apply_section_label and _apply_source_section_label
_apply_section_label(d, section_label) ==
    IF section_label = <<>> THEN d
    ELSE IF HasLabel(d, "production_type")
            /\ Get(d, "production_type") # JStr(section_label)
    THEN IF HasLabel(d, "section") THEN d
         ELSE Put(d, "section", JStr(section_label))
    ELSE Put(d, "production_type", JStr(section_label))

\* source.file; lattes_id and extracted_at, set the same way from the file
\* name and the clock, are not part of the model
SourceWithFile(source, source_file) ==
    IF "file" \in DOMAIN source.dict THEN source
    ELSE Put(source, "file", JStr(source_file))

\* item.get('source') or {}
SourceOf(item) ==
    IF Truthy(Get(item, "source")) THEN Get(item, "source") ELSE JDict(<<>>)

\* what add_provenance_to_items does to one item
WithProvenance(item, source_file, production_type) ==
    Put(_apply_section_label(item, production_type), "source",
        _apply_section_label(SourceWithFile(SourceOf(item), source_file),
                             production_type))

\* ------------------------------------------------------------------------
\* batch_full_profile.py: _apply_citacao_fallbacks
\* ------------------------------------------------------------------------
\* \b between position q - 1 and position q of s
WordBoundary(s, q) == IsWord(At(s, q - 1)) # IsWord(At(s, q))

\* r'(?:\b|\.)\s*(19|20)\d{2}\b' with its digits at d and its \s* from q on
EmbeddedYear(s, q, d) ==
    /\ WordBoundary(s, q) \/ At(s, q - 1) = "."
    /\ \A j \in q..(d - 1) : IsSpace(s[j])
    /\ YearAt(s, d)
    /\ ~IsWord(At(s, d + 4))

\* _autores_tem_ano, on a str or None
_autores_tem_ano(autores) ==
    /\ Truthy(autores)
    /\ \E d \in 1..Len(autores.str) : \E q \in 1..d :
          EmbeddedYear(autores.str, q, d)

\* r'\b[A-ZÀ-Ú]{2,},\s*[A-Z]' from i with its comma at j
SurnameAt(s, i, j) ==
    /\ WordBoundary(s, i)
    /\ j >= i + 2
    /\ \A k \in i..(j - 1) : IsUpperLatin(s[k])
    /\ s[j] = ","
    /\ IsUpper(At(s, SkipSpaces(s, j + 1)))

\* _autores_parecem_lista, on a str
_autores_parecem_lista(autores) ==
    /\ autores # <<>>
    /\ \/ \E i \in 1..Len(autores) : autores[i] = ";"
       \/ \E i \in 1..Len(autores) : \E j \in i..Len(autores) :
             SurnameAt(autores, i, j)

\* _item_parece_capitulo
_item_parece_capitulo(raw_text) == Contains(raw_text, TokenIn)

\* item['autores'] = autores, under its two conditions
RepairAuthors(item, autores) ==
    IF /\ _autores_parecem_lista(autores)
       /\ \/ ~Truthy(Get(item, "autores"))
          \/ _autores_tem_ano(Get(item, "autores"))
    THEN Put(item, "autores", JStr(autores))
    ELSE item

PutUnlessSet(item, key, value) ==
    IF Truthy(Get(item, key)) THEN item ELSE Put(item, key, JStr(value))

\* the title written whether or not the item has one
RepairTitle_overwriting(item, titulo) ==
    IF titulo # <<>> THEN Put(item, "titulo", JStr(titulo)) ELSE item

\* item['titulo'] = titulo, under its condition
RepairTitle(item, titulo) ==
    IF titulo # <<>> THEN PutUnlessSet(item, "titulo", titulo) ELSE item

\* item['livro'] or item['veiculo'] = veiculo_ou_livro, under their conditions
RepairVenue(item, raw_text, veiculo_ou_livro) ==
    IF veiculo_ou_livro = <<>> THEN item
    ELSE IF _item_parece_capitulo(raw_text)
    THEN PutUnlessSet(item, "livro", veiculo_ou_livro)
    ELSE PutUnlessSet(item, "veiculo", veiculo_ou_livro)

\* a pass that also stores the recomputed title as the raw text
Repaired_rewriting(item, raw_text, citacao) ==
    Put(RepairVenue(RepairTitle(RepairAuthors(item, citacao.autores),
                                citacao.titulo),
                    raw_text, citacao.veiculo_ou_livro),
        "raw", JStr(citacao.titulo))

\* one pass of the loop, citacao being split_citacao(raw_text)
Repaired(item, raw_text, citacao) ==
    RepairVenue(RepairTitle(RepairAuthors(item, citacao.autores),
                            citacao.titulo),
                raw_text, citacao.veiculo_ou_livro)

RepairedFrom(item, raw_text) == Repaired(item, raw_text, split_citacao(raw_text))

\* the items after _apply_citacao_fallbacks(items)
_apply_citacao_fallbacks(items) ==
    [k \in 1..Len(items) |-> RepairedFrom(items[k], GetText(items[k], "raw"))]

\* ------------------------------------------------------------------------
\* batch_full_profile.py: filter_productions_by_year
\* ------------------------------------------------------------------------
\* _infer_year_from_item, ano being item.get('ano')
YearFrom(item, ano) ==
    IF IsInt(ano) THEN Year(ano.int)
    ELSE IF IsStr(ano) /\ IsDigits(Strip(ano.str)) THEN Year(IntOf(Strip(ano.str)))
    ELSE YearInRaw(GetText(item, "raw"))

_infer_year_from_item(item) == YearFrom(item, Get(item, "ano"))

\* allowed_years is None
AllYears == [given |-> FALSE, years |-> <<>>]

\* allowed_years is a list of years
Years(l) == [given |-> TRUE, years |-> l]

\* an item without a year appended as well
Kept_undated(year, allowed_set) == ~year.found \/ year.year \in allowed_set

\* whether the loop appends the item to filtered
Kept(year, allowed_set) == year.found /\ year.year \in allowed_set

\* {int(year) for year in allowed_years}
AllowedSet(allowed_years) ==
    {allowed_years.years[i] : i \in 1..Len(allowed_years.years)}

\* filter_productions_by_year
filter_productions_by_year(items, allowed_years) ==
    IF ~allowed_years.given THEN items
    ELSE ConcatAll([k \in 1..Len(items) |->
                      IF Kept(_infer_year_from_item(items[k]),
                              AllowedSet(allowed_years))
                      THEN <<items[k]>> ELSE <<>>])

\* ------------------------------------------------------------------------
\* batch_full_profile.py: normalize_text
\* ------------------------------------------------------------------------
\* whether the codec encodes the character: neither Latin-1 nor Windows-1252
\* has the combining marks, and Latin-1 has neither the dashes nor the florin
Encodable(c, codec) ==
    /\ c \notin CombiningMarks
    /\ codec = "latin-1" => c \notin {"emdash", "endash", "fhook"}

\* text.encode(codec, errors='ignore'): each character that is kept stands
\* for the byte it is encoded to
Encoded(text, codec) ==
    ConcatAll([i \in 1..Len(text) |->
                 IF Encodable(text[i], codec) THEN <<text[i]>> ELSE <<>>])

\* the bytes that open a UTF-8 sequence of two bytes: 0xC3. The texts of
\* the model have no other byte above 0x7F before a continuation byte
IsLead(b) == b = "A_tilde"

\* the bytes that continue a UTF-8 sequence: 0xA3, 0xA0, 0x96, 0x97 and 0x83
IsContinuation(b) == b \in {"pound", "nbsp", "endash", "emdash", "fhook"}

\* the bytes below 0x80
IsAscii(b) ==
    b \notin {"pound", "nbsp", "endash", "emdash", "fhook", "times", "o_tilde"}
              \cup CombiningMarks
              \cup AccentedLower \cup AccentedUpper

\* the character of the sequence 0xC3 b
Decoded2(b) ==
    CASE b = "pound" -> "a_tilde"
      [] b = "nbsp" -> "a_grave"
      [] b = "endash" -> "O_umlaut"
      [] b = "emdash" -> "times"
      [] b = "fhook" -> "A_tilde"

\* whether UTF-8 decodes the byte at i
ValidAt(bytes, i) ==
    \/ IsAscii(bytes[i])
    \/ IsLead(bytes[i]) /\ IsContinuation(At(bytes, i + 1))
    \/ IsContinuation(bytes[i]) /\ IsLead(At(bytes, i - 1))

\* bytes.decode('utf-8', errors='ignore')
Utf8(bytes) ==
    ConcatAll([i \in 1..Len(bytes) |->
                 IF IsAscii(bytes[i]) THEN <<bytes[i]>>
                 ELSE IF IsLead(bytes[i]) /\ IsContinuation(At(bytes, i + 1))
                 THEN <<Decoded2(bytes[i + 1])>>
                 ELSE <<>>])

\* _maybe_fix_mojibake: None when strict and the text cannot be encoded or
\* its bytes cannot be decoded
_maybe_fix_mojibake(text, codec, strict) ==
    IF strict /\ \/ \E i \in 1..Len(text) : ~Encodable(text[i], codec)
                 \/ \E i \in 1..Len(text) : ~ValidAt(text, i)
    THEN NoText
    ELSE Text(Utf8(Encoded(text, codec)))

\* _count_mojibake_markers: of the markers, the texts of the model hold "Ã"
_count_mojibake_markers(text) ==
    Cardinality({i \in 1..Len(text) : text[i] = "A_tilde"})

\* a or b, for str or None
OrElse(a, b) == IF a.found /\ a.value # <<>> THEN a ELSE b

\* a candidate with as many markers accepted
Rejected_equal(candidate, current_score) ==
    ~candidate.found \/ _count_mojibake_markers(candidate.value) > current_score

\* candidate is None or _count_mojibake_markers(candidate) >= current_score
Rejected(candidate, current_score) ==
    ~candidate.found \/ _count_mojibake_markers(candidate.value) >= current_score

\* the text after one pass of the loop that found a marker
Fixed(text, current_score, strict, lenient) ==
    IF ~Rejected(strict, current_score) THEN strict.value
    ELSE IF ~Rejected(lenient, current_score) THEN lenient.value
    ELSE text

\* one pass of the loop; a pass that breaks leaves the text as it is, and so
\* does every pass after it
FixPass(text) ==
    IF _count_mojibake_markers(text) = 0 THEN text
    ELSE Fixed(text, _count_mojibake_markers(text),
               OrElse(_maybe_fix_mojibake(text, "latin-1", TRUE),
                      _maybe_fix_mojibake(text, "cp1252", TRUE)),
               OrElse(_maybe_fix_mojibake(text, "latin-1", FALSE),
                      _maybe_fix_mojibake(text, "cp1252", FALSE)))

\* text.replace('\r\n', '\n').replace('\r', '\n')
UnixLines(text) == Replace(Replace(text, <<"cr", "\n">>, <<"\n">>), <<"cr">>, <<"\n">>)

\* normalize_text of a str, with unescape_html
normalize_text(value) == FixPass(FixPass(UnixLines(Unescape(value))))

\* ------------------------------------------------------------------------
\* batch_full_profile.py: normalize_nested_text
\* ------------------------------------------------------------------------
RECURSIVE normalize_nested_text(_, _)

\* the values under the excluded keys normalized like the others
normalize_nested_text_unprotected(value, exclude_keys) ==
    IF IsDict(value)
    THEN JDict([key \in DOMAIN value.dict |->
                  normalize_nested_text(value.dict[key], exclude_keys)])
    ELSE IF IsList(value)
    THEN JList([i \in 1..Len(value.list) |->
                  normalize_nested_text(value.list[i], exclude_keys)])
    ELSE IF IsStr(value) THEN JStr(normalize_text(value.str))
    ELSE value

\* a digest is a str that normalize_text returns as it is
normalize_nested_text(value, exclude_keys) ==
    IF IsDict(value)
    THEN JDict([key \in DOMAIN value.dict |->
                  IF exclude_keys # {} /\ key \in exclude_keys
                  THEN value.dict[key]
                  ELSE normalize_nested_text(value.dict[key], exclude_keys)])
    ELSE IF IsList(value)
    THEN JList([i \in 1..Len(value.list) |->
                  normalize_nested_text(value.list[i], exclude_keys)])
    ELSE IF IsStr(value) THEN JStr(normalize_text(value.str))
    ELSE value

ErrorRecord(idx, ordem, reason, msg) ==
    [index |-> idx, ordem_lattes |-> ordem, reason |-> reason, error |-> msg]

NoError == ErrorRecord(0, KeyAbsent, "", "")

\* what the try body does with a block: builds an item, returns None,
\* continues without a trace, or throws
Built(item) == [t |-> "item", item |-> item, msg |-> ""]

ReturnsNone == [t |-> "none", item |-> NoItem, msg |-> ""]

Continues == [t |-> "continue", item |-> NoItem, msg |-> ""]

Throws(msg) == [t |-> "throw", item |-> NoItem, msg |-> msg]

\* what one pass does to the loop: an item appended, nothing, an error
\* appended, or an exception leaving parse_html
Emit(item) == [t |-> "emit", item |-> item, err |-> NoError]

Skip == [t |-> "skip", item |-> NoItem, err |-> NoError]

Fail(err) == [t |-> "error", item |-> NoItem, err |-> err]

Raise == [t |-> "raise", item |-> NoItem, err |-> NoError]

\* str(e) of the exceptions a block can throw
IntLimitMsg == "Exceeds the limit (4300 digits) for integer string conversion"

FaultMsg == "extractor fault"

\* GenericParser.parse_html, the try body of the loop over layout-cell-1 divs
GenericBody(b) ==
    IF b.num.kind = "huge" THEN Throws(IntLimitMsg)
    ELSE IF b.num.kind = "none" THEN Continues
    ELSE IF ~b.cell11 THEN Continues
    ELSE IF ~b.span THEN Continues
    ELSE IF b.fault THEN Throws(FaultMsg)
    ELSE Built(GenericItem(b.num.val, _clean_text(get_text(b.nodes, <<" ">>))))

\* a pass whose except branch continues without a trace: o is what the try
\* body did
Swallowing(o) == IF o.t = "item" THEN Emit(o.item) ELSE Skip

\* a pass whose except branch appends an 'exception' record
Recording(o, idx) ==
    IF o.t = "item" THEN Emit(o.item)
    ELSE IF o.t = "throw"
    THEN Fail(ErrorRecord(idx, KeyAbsent, "exception", o.msg))
    ELSE Skip

\* GenericParser.parse_html, one pass: the except branch is a bare continue
GenericStep(b, idx) == Swallowing(GenericBody(b))

\* ArtigoParser.parse_single_artigo
parse_single_artigo(b) ==
    IF b.num.kind = "huge" THEN Throws(IntLimitMsg)
    ELSE IF b.num.kind = "none" THEN ReturnsNone
    ELSE IF ~b.cell11 \/ ~b.span THEN ReturnsNone
    ELSE IF b.fault THEN Throws(FaultMsg)
    ELSE Built(ArtigoItem(b.num.val, clean_text(get_text(b.nodes, <<" ">>)),
                          _extract_ano(b), _extract_doi(b)))

\* ArtigoParser._extract_ordem_lattes throws: int() of an overlong digit run
OrdemThrows(b) == b.num.kind = "huge"

\* ArtigoParser._extract_ordem_lattes when it returns: the ordinal or None
OrdemOf(b) == IF b.num.kind = "int" THEN b.num ELSE NoNum

\* ArtigoParser.parse_html, one pass of the loop over div.artigo-completo, o
\* being what parse_single_artigo did; both the else branch and the except
\* branch extract the ordinal again, the except branch outside any try
ArtigoWrapperPass(o, b, idx) ==
    IF o.t = "item" THEN Emit(o.item)
    ELSE IF o.t = "none"
    THEN Fail(ErrorRecord(idx, OrdemOf(b), "missing_structure", ""))
    ELSE IF OrdemThrows(b) THEN Raise
    ELSE Fail(ErrorRecord(idx, OrdemOf(b), "exception", o.msg))

ArtigoWrapperStep(b, idx) == ArtigoWrapperPass(parse_single_artigo(b), b, idx)

\* ArtigoParser._parse_from_span on a span whose cleaned text is raw
ParseFromSpan(b, raw) ==
    IF raw = <<>> THEN ReturnsNone
    ELSE IF b.fault THEN Throws(FaultMsg)
    ELSE Built(ArtigoItem(b.num.val, raw, _extract_ano_from_text(raw),
                          _extract_doi(b)))

\* (None, None) of _split_authors_and_remainder
NoSplit == [autores_raw |-> <<>>, remainder |-> <<>>]

\* raw_text.split(' . ', 1) with the delimiter at i, both parts stripped
SplitAtDelimiter(raw_text, i) ==
    [autores_raw |-> Strip(Slice(raw_text, 1, i - 1)),
     remainder |-> Strip(Slice(raw_text, i + 3, Len(raw_text)))]

\* r'^(.+?)\.\s+(.+)$' with the "." after group 1 at d
PeriodSplitAt(s, d) == d >= 2 /\ s[d] = "." /\ IsSpace(At(s, d + 1)) /\ d + 2 <= Len(s)

\* the split at the first such ".", kept when group 1 looks like an author
\* block (_looks_like_author_block is the test of _autores_parecem_lista)
PeriodSplit(s, P) ==
    IF P = {} THEN NoSplit
    ELSE IF _autores_parecem_lista(clean_text(Slice(s, 1, SetMin(P) - 1)))
    THEN [autores_raw |-> clean_text(Slice(s, 1, SetMin(P) - 1)),
          remainder |-> clean_text(Slice(s, SetMin(P) + 2, Len(s)))]
    ELSE NoSplit

\* TextoJornalParser._split_authors_and_remainder
_split_authors_and_remainder(raw_text) ==
    IF Contains(raw_text, TokenDelimiter)
    THEN SplitAtDelimiter(raw_text, Find(raw_text, TokenDelimiter, 1))
    ELSE PeriodSplit(raw_text,
                     {d \in 1..Len(raw_text) : PeriodSplitAt(raw_text, d)})

\* the author names kept by _normalize_autores
TextoAuthors(pieces) ==
    ConcatAll([i \in 1..Len(pieces) |->
                 IF Len(clean_text(pieces[i])) > 2
                 THEN <<clean_text(pieces[i])>> ELSE <<>>])

\* TextoJornalParser._normalize_autores
_normalize_autores(autores_raw) ==
    IF autores_raw = <<>> THEN NoText
    ELSE JoinedAuthors(TextoAuthors(Split(autores_raw, <<";">>)))

\* TextoJornalParser._extract_titulo_from_remainder: the text before the
\* first ".", else the text before the first ",", else None
_extract_titulo_from_remainder(remainder) ==
    IF remainder # <<>> /\ remainder[1] # "."
          /\ NextDot(remainder, 1) <= Len(remainder)
    THEN Text(clean_text(Slice(remainder, 1, NextDot(remainder, 1) - 1)))
    ELSE IF NextOf(remainder, ",", 1) <= Len(remainder)
    THEN Text(clean_text(Slice(remainder, 1, NextOf(remainder, ",", 1) - 1)))
    ELSE NoText

\* the item TextoJornalParser builds, of which the model keeps the authors,
\* the title and the year; parts is what _split_authors_and_remainder gave
TextoItemOf(n, raw, parts) ==
    IF parts.autores_raw = <<>> \/ parts.remainder = <<>>
    THEN [numero_item |-> n, raw |-> raw,
          autores |-> NoText,
          titulo |-> NoText,
          ano |-> _extract_data(raw),
          fingerprint_sha1 |-> Sha1(raw)]
    ELSE [numero_item |-> n, raw |-> raw,
          autores |-> _normalize_autores(parts.autores_raw),
          titulo |-> _extract_titulo_from_remainder(parts.remainder),
          ano |-> _extract_data(parts.remainder),
          fingerprint_sha1 |-> Sha1(raw)]

TextoItem(n, raw) == TextoItemOf(n, raw, _split_authors_and_remainder(raw))

\* TextoJornalParser._parse_item on a span whose cleaned text is raw
ParseItem(b, raw) ==
    IF raw = <<>> THEN ReturnsNone
    ELSE IF b.fault THEN Throws(FaultMsg)
    ELSE Built(TextoItem(b.num.val, raw))

\* ArtigoParser._parse_layout_cell_pattern, the try body with _parse_from_span
ArtigoPlainBody(b) ==
    IF ~b.cell11 THEN Continues
    ELSE IF b.num.kind = "huge" THEN Throws(IntLimitMsg)
    ELSE IF b.num.kind = "none" THEN Continues
    ELSE IF ~b.span THEN Continues
    ELSE ParseFromSpan(b, clean_text(get_text(b.nodes, <<" ">>)))

\* ArtigoParser._parse_layout_cell_pattern, one pass: the except branch logs
\* and continues
ArtigoPlainStep(b, idx) == Swallowing(ArtigoPlainBody(b))

TokenOrg == <<"(", "O", "r", "g", ".", ")">>

\* the "looks like a chapter" test of CapituloParser.parse_html
LooksLikeChapter(texto) == Contains(texto, TokenIn) /\ Contains(texto, TokenOrg)

\* r'\.\s+([^.]+)\.\s+In:' with its first "." at i and its second at d
TituloMatchTo(s, i, d) ==
    /\ d <= Len(s)
    /\ d >= i + 3
    /\ IsSpace(At(s, d + 1))
    /\ MatchAt(s, TokenIn, SkipSpaces(s, d + 1))

\* does r'\.\s+([^.]+)\.\s+In:' match with its first "." at i
TituloMatchAt(s, i) ==
    /\ At(s, i) = "."
    /\ IsSpace(At(s, i + 1))
    /\ TituloMatchTo(s, i, NextDot(s, i + 1))

\* the positions where the pattern matches
TituloMatches(s) == {i \in 1..Len(s) : TituloMatchAt(s, i)}

\* match.group(1) of the match at i, cleaned
TituloGroup(s, i) ==
    [found |-> TRUE, value |-> clean_text(Slice(s, i + 1, NextDot(s, i + 1) - 1))]

\* the result of re.search, M being the positions where the pattern matches
TituloIn(s, M) ==
    IF M = {} THEN [found |-> FALSE, value |-> <<>>]
    ELSE TituloGroup(s, SetMin(M))

\* CapituloParser._extract_titulo: the chapter title between the authors and
\* "In:", found is FALSE when the pattern AUTHORS. TITLE. In: is absent
_extract_titulo(s) == TituloIn(s, TituloMatches(s))

\* the item CapituloParser builds, of which the model keeps the title and
\* the year
CapituloItem(n, raw) ==
    [numero_item |-> n, raw |-> raw,
     titulo |-> _extract_titulo(raw),
     ano |-> _extract_ano_capitulo(raw),
     fingerprint_sha1 |-> Sha1(raw)]

\* the chapter test and _parse_capitulo on a span whose cleaned text is texto
ParseCapitulo(b, texto) ==
    IF ~LooksLikeChapter(texto) THEN Continues
    ELSE IF b.fault THEN Throws(FaultMsg)
    ELSE Built(CapituloItem(b.num.val, texto))

\* CapituloParser.parse_html, the try body with _parse_capitulo
CapituloBody(b) ==
    IF ~b.cell11 THEN Continues
    ELSE IF b.num.kind = "huge" THEN Throws(IntLimitMsg)
    ELSE IF b.num.kind = "none" THEN Continues
    ELSE IF ~b.span THEN Continues
    ELSE ParseCapitulo(b, clean_text(get_text(b.nodes, <<>>)))

\* CapituloParser.parse_html, one pass: the except branch appends an
\* 'exception' record
CapituloStep(b, idx) == Recording(CapituloBody(b), idx)

\* TextoJornalParser.parse_html, the try body with _parse_item
TextoBody(b) ==
    IF ~b.cell11 THEN Continues
    ELSE IF b.num.kind = "huge" THEN Throws(IntLimitMsg)
    ELSE IF b.num.kind = "none" THEN Continues
    ELSE IF ~b.span THEN Continues
    ELSE ParseItem(b, clean_text(get_text(b.nodes, <<>>)))

\* TextoJornalParser.parse_html, one pass
TextoStep(b, idx) == Recording(TextoBody(b), idx)

\* the try body of the loop a parser runs on a fragment
Body(path, b) ==
    CASE path = "generic" -> GenericBody(b)
      [] path = "artigo_wrapper" -> parse_single_artigo(b)
      [] path = "artigo_plain" -> ArtigoPlainBody(b)
      [] path = "capitulo" -> CapituloBody(b)
      [] path = "texto" -> TextoBody(b)

Step(path, b, idx) ==
    CASE path = "generic" -> GenericStep(b, idx)
      [] path = "artigo_wrapper" -> ArtigoWrapperStep(b, idx)
      [] path = "artigo_plain" -> ArtigoPlainStep(b, idx)
      [] path = "capitulo" -> CapituloStep(b, idx)
      [] path = "texto" -> TextoStep(b, idx)

\* what each pass of the loop of parse_html does, pass i handling blocks[i]
\* with index i - 1
Passes(path, blocks) ==
    [i \in 1..Len(blocks) |-> Step(path, blocks[i], i - 1)]

\* the pass at which an exception leaves the loop, one past the last pass
\* when none does
StopAt(steps) ==
    SetMin({i \in 1..Len(steps) : steps[i].t = "raise"} \cup {Len(steps) + 1})

\* the loop ended at pass stop: results holds the items of the passes before
\* it, self.errors the records those passes appended to errs
LoopUpTo(steps, stop, errs) ==
    [results |-> ConcatAll([i \in 1..(stop - 1) |->
                              IF steps[i].t = "emit" THEN <<steps[i].item>>
                              ELSE <<>>]),
     errors |-> errs \o ConcatAll([i \in 1..(stop - 1) |->
                                      IF steps[i].t = "error"
                                      THEN <<steps[i].err>> ELSE <<>>]),
     raised |-> stop <= Len(steps)]

\* the for loop of parse_html
Loop(steps, errs) == LoopUpTo(steps, StopAt(steps), errs)

IsWrapper(b) == b.shape = "wrapper"

\* soup.find_all('div', class_='artigo-completo')
ArtigoDivs(blocks) == SelectSeq(blocks, IsWrapper)

ParserKinds == {"ArtigoParser", "CapituloParser", "TextoJornalParser",
                "GenericParser"}

\* the parsers that have an errors attribute
HasErrors(kind) == kind # "GenericParser"

\* the loop a parser of the given kind runs on the blocks of a fragment
PathOf(kind, blocks) ==
    CASE kind = "GenericParser" -> "generic"
      [] kind = "ArtigoParser" ->
           IF ArtigoDivs(blocks) # <<>> THEN "artigo_wrapper"
           ELSE "artigo_plain"
      [] kind = "CapituloParser" -> "capitulo"
      [] kind = "TextoJornalParser" -> "texto"

\* the blocks that loop enumerates, in document order
Enumerated(kind, blocks) ==
    IF PathOf(kind, blocks) = "artigo_wrapper" THEN ArtigoDivs(blocks)
    ELSE blocks

\* the reset forgotten: the records of earlier calls stay
ResetErrors_kept(errs) == errs

\* "self.errors = []" at the head of parse_html
ResetErrors(errs) == <<>>

\* parse_html of a parser of the given kind, called on an instance whose
\* errors attribute holds errs; blocks are the blocks of the html
parse_html(kind, errs, blocks) ==
    Loop(Passes(PathOf(kind, blocks), Enumerated(kind, blocks)),
         IF HasErrors(kind) THEN ResetErrors(errs) ELSE errs)

\* ------------------------------------------------------------------------
\* The parser router: label normalisation and parser selection
\* ------------------------------------------------------------------------
\* precomposed accented letters ("a_tilde", "C_cedilla", ...): their lower
\* case, base letter and combining mark
LowerOfPrecomposed(c) ==
    CASE c = "A_tilde" -> "a_tilde"
      [] c = "C_cedilla" -> "c_cedilla"
      [] c = "I_acute" -> "i_acute"
      [] c = "O_acute" -> "o_acute"
      [] c = "O_umlaut" -> "o_umlaut"
      [] OTHER -> c

\* str.lower() on one character
LowerChar(c) ==
    IF c \in UpperSet
    THEN LowerSeq[CHOOSE i \in 1..26 : UpperSeq[i] = c]
    ELSE LowerOfPrecomposed(c)

Lower(s) == [i \in 1..Len(s) |-> LowerChar(s[i])]

\* unicodedata.normalize('NFD', c) of one character
NFDChar(c) ==
    CASE c = "a_tilde" -> <<"a", "tilde">>
      [] c = "c_cedilla" -> <<"c", "cedilla">>
      [] c = "i_acute" -> <<"i", "acute">>
      [] c = "o_acute" -> <<"o", "acute">>
      [] c = "A_tilde" -> <<"A", "tilde">>
      [] c = "C_cedilla" -> <<"C", "cedilla">>
      [] c = "I_acute" -> <<"I", "acute">>
      [] c = "O_acute" -> <<"O", "acute">>
      [] c = "a_grave" -> <<"a", "grave">>
      [] c = "o_umlaut" -> <<"o", "diaeresis">>
      [] c = "O_umlaut" -> <<"O", "diaeresis">>
      [] OTHER -> <<c>>

NFD(s) == ConcatAll([i \in 1..Len(s) |-> NFDChar(s[i])])

\* unicodedata.category(c) != 'Mn'
NotMark(c) == c \notin CombiningMarks

DropMarks(s) == SelectSeq(s, NotMark)

\* the greatest element of P, 0 when P is empty
GreatestOrZero(P) == IF P = {} THEN 0 ELSE SetMax(P)

\* last position of character c in s, 0 when absent
LastIndexOf(s, c) == GreatestOrZero({j \in 1..Len(s) : s[j] = c})

\* Path(p).name: the part after the last "/"
PathName(p) == Slice(p, LastIndexOf(p, "/") + 1, Len(p))

\* the name without the suffix that starts at its i-th character; a leading
\* or a trailing dot starts no suffix
WithoutSuffix(name, i) ==
    IF i > 1 /\ i < Len(name) THEN Slice(name, 1, i - 1) ELSE name

\* PurePath.stem of a file name
StemOfName(name) == WithoutSuffix(name, LastIndexOf(name, "."))

\* Path(p).stem
PathStem(p) == StemOfName(PathName(p))

\* name.replace('_', ' ').replace(':', ' ')
ReplaceSeparators(s) ==
    [i \in 1..Len(s) |-> IF s[i] \in {"_", ":"} THEN " " ELSE s[i]]

\* normalize_filename
normalize_filename(filename) ==
    Strip(CollapseSpaces(ReplaceSeparators(DropMarks(NFD(Lower(PathStem(filename)))))))

IsSlugChar(c) == c \in LowerSet \cup DigitSet

\* re.sub(r'[^a-z0-9]+', '-', text): a run of other characters leaves "-"
Hyphenate(s) ==
    ConcatAll([i \in 1..Len(s) |->
                 IF IsSlugChar(s[i]) THEN <<s[i]>>
                 ELSE IF i > 1 /\ ~IsSlugChar(s[i - 1]) THEN <<>>
                 ELSE <<"-">>])

\* str.strip('-')
RECURSIVE SkipHyphens(_, _)
SkipHyphens(s, i) ==
    IF i <= Len(s) /\ s[i] = "-" THEN SkipHyphens(s, i + 1) ELSE i

RECURSIVE LastNonHyphen(_, _)
LastNonHyphen(s, j) ==
    IF j >= 1 /\ s[j] = "-" THEN LastNonHyphen(s, j - 1) ELSE j

StripHyphens(s) == Slice(s, SkipHyphens(s, 1), LastNonHyphen(s, Len(s)))

\* re.sub(r'-+', '-', text)
CollapseHyphens(s) ==
    ConcatAll([i \in 1..Len(s) |->
                 IF s[i] # "-" THEN <<s[i]>>
                 ELSE IF i > 1 /\ s[i - 1] = "-" THEN <<>>
                 ELSE <<"-">>])

\* slugify
slugify(text) ==
    CollapseHyphens(StripHyphens(Hyphenate(Lower(DropMarks(NFD(text))))))

\* the name of the temporary file parse_section_html writes:
\* f"temp__{slugify(section_title)}.html"
TempFilename(title) ==
    <<"t", "e", "m", "p", "_", "_">> \o slugify(title)
        \o <<".", "h", "t", "m", "l">>

KeyArtigosCompletos ==
    <<"a", "r", "t", "i", "g", "o", "s", " ", "c", "o", "m", "p", "l", "e",
      "t", "o", "s", " ", "p", "u", "b", "l", "i", "c", "a", "d", "o", "s",
      " ", "e", "m", " ", "p", "e", "r", "i", "o", "d", "i", "c", "o", "s">>

KeyArtigosAceitos ==
    <<"a", "r", "t", "i", "g", "o", "s", " ", "a", "c", "e", "i", "t", "o",
      "s", " ", "p", "a", "r", "a", " ", "p", "u", "b", "l", "i", "c", "a",
      "c", "a", "o">>

KeyCapitulos ==
    <<"c", "a", "p", "i", "t", "u", "l", "o", "s", " ", "d", "e", " ", "l",
      "i", "v", "r", "o", "s", " ", "p", "u", "b", "l", "i", "c", "a", "d",
      "o", "s">>

KeyTextos ==
    <<"t", "e", "x", "t", "o", "s", " ", "e", "m", " ", "j", "o", "r", "n",
      "a", "i", "s", " ", "d", "e", " ", "n", "o", "t", "i", "c", "i", "a",
      "s", " ", "r", "e", "v", "i", "s", "t", "a", "s">>

\* PARSER_REGISTRY, in insertion order
PARSER_REGISTRY ==
    <<[pattern |-> KeyArtigosCompletos, parser_class |-> "ArtigoParser"],
      [pattern |-> KeyArtigosAceitos, parser_class |-> "ArtigoParser"],
      [pattern |-> KeyCapitulos, parser_class |-> "CapituloParser"],
      [pattern |-> KeyTextos, parser_class |-> "TextoJornalParser"]>>

RECURSIVE ScanRegistry(_, _)

\* the parser of the last matching entry from entry i on
ScanRegistry_last(normalized_name, i) ==
    LET M == {j \in i..Len(PARSER_REGISTRY) :
                 Contains(normalized_name, PARSER_REGISTRY[j].pattern)} IN
    IF M = {} THEN "GenericParser" ELSE PARSER_REGISTRY[SetMax(M)].parser_class

\* the loop of get_parser_for_file from registry entry i on: the parser of
\* the first entry whose key is in the normalized name
ScanRegistry(normalized_name, i) ==
    IF i > Len(PARSER_REGISTRY) THEN "GenericParser"
    ELSE IF Contains(normalized_name, PARSER_REGISTRY[i].pattern)
    THEN PARSER_REGISTRY[i].parser_class
    ELSE ScanRegistry(normalized_name, i + 1)

\* get_parser_for_file: the class of the parser it instantiates
get_parser_for_file(filepath) ==
    ScanRegistry(normalize_filename(PathName(filepath)), 1)

\* ------------------------------------------------------------------------
\* Labels: file names and section titles the router is asked about
\* ------------------------------------------------------------------------
\* "Artigos completos publicados em peri~dicos"
PhraseArtigosCompletos ==
    <<<<"A", "r", "t", "i", "g", "o", "s">>,
      <<"c", "o", "m", "p", "l", "e", "t", "o", "s">>,
      <<"p", "u", "b", "l", "i", "c", "a", "d", "o", "s">>,
      <<"e", "m">>,
      <<"p", "e", "r", "i", "o_acute", "d", "i", "c", "o", "s">>>>

\* "Artigos aceitos para publica~~o"
PhraseArtigosAceitos ==
    <<<<"A", "r", "t", "i", "g", "o", "s">>,
      <<"a", "c", "e", "i", "t", "o", "s">>,
      <<"p", "a", "r", "a">>,
      <<"p", "u", "b", "l", "i", "c", "a", "c_cedilla", "a_tilde", "o">>>>

\* "Cap~tulos de livros publicados"
PhraseCapitulos ==
    <<<<"C", "a", "p", "i_acute", "t", "u", "l", "o", "s">>,
      <<"d", "e">>,
      <<"l", "i", "v", "r", "o", "s">>,
      <<"p", "u", "b", "l", "i", "c", "a", "d", "o", "s">>>>

\* "Textos em jornais de not~cias revistas"
PhraseTextos ==
    <<<<"T", "e", "x", "t", "o", "s">>,
      <<"e", "m">>,
      <<"j", "o", "r", "n", "a", "i", "s">>,
      <<"d", "e">>,
      <<"n", "o", "t", "i_acute", "c", "i", "a", "s">>,
      <<"r", "e", "v", "i", "s", "t", "a", "s">>>>

\* "Livros publicados ou organizados"
PhraseLivros ==
    <<<<"L", "i", "v", "r", "o", "s">>,
      <<"p", "u", "b", "l", "i", "c", "a", "d", "o", "s">>,
      <<"o", "u">>,
      <<"o", "r", "g", "a", "n", "i", "z", "a", "d", "o", "s">>>>

\* "Unknown Type"
PhraseUnknown ==
    <<<<"U", "n", "k", "n", "o", "w", "n">>,
      <<"T", "y", "p", "e">>>>

\* "Cap~tulos de livros publicados e Artigos aceitos para publica~~o"
PhraseBoth ==
    <<<<"C", "a", "p", "i_acute", "t", "u", "l", "o", "s">>,
      <<"d", "e">>,
      <<"l", "i", "v", "r", "o", "s">>,
      <<"p", "u", "b", "l", "i", "c", "a", "d", "o", "s">>,
      <<"e">>,
      <<"A", "r", "t", "i", "g", "o", "s">>,
      <<"a", "c", "e", "i", "t", "o", "s">>,
      <<"p", "a", "r", "a">>,
      <<"p", "u", "b", "l", "i", "c", "a", "c_cedilla", "a_tilde", "o">>>>

\* "Artigos completos publicados em anais"
PhraseNear ==
    <<<<"A", "r", "t", "i", "g", "o", "s">>,
      <<"c", "o", "m", "p", "l", "e", "t", "o", "s">>,
      <<"p", "u", "b", "l", "i", "c", "a", "d", "o", "s">>,
      <<"e", "m">>,
      <<"a", "n", "a", "i", "s">>>>

Phrases == {PhraseArtigosCompletos, PhraseArtigosAceitos, PhraseCapitulos,
            PhraseTextos, PhraseLivros, PhraseUnknown, PhraseBoth, PhraseNear}

UpperOfPrecomposed(c) ==
    CASE c = "a_tilde" -> "A_tilde"
      [] c = "c_cedilla" -> "C_cedilla"
      [] c = "i_acute" -> "I_acute"
      [] c = "o_acute" -> "O_acute"
      [] OTHER -> c

UpperChar(c) ==
    IF c \in LowerSet
    THEN UpperSeq[CHOOSE i \in 1..26 : LowerSeq[i] = c]
    ELSE UpperOfPrecomposed(c)

Upper(s) == [i \in 1..Len(s) |-> UpperChar(s[i])]

Recase(s, how) ==
    CASE how = "title" -> s
      [] how = "upper" -> Upper(s)
      [] how = "lower" -> Lower(s)

Cases == {"title", "upper"}

WordSeparators == {<<" ">>, <<"_">>, <<":">>, <<"-">>, <<" ", " ">>}

Extensions == {<<>>, <<".", "h", "t", "m", "l">>}

Prefixes == {<<>>, <<"f", "i", "x", "t", "u", "r", "e", "s", "/">>}

\* the file names get_parser_for_file is called with
FileNames ==
    {pre \o Recase(JoinWords(ph, sep), how) \o ext :
        pre \in Prefixes, ph \in Phrases, sep \in WordSeparators,
        how \in Cases, ext \in Extensions}

\* the section titles parse_section_html is called with
SectionTitles ==
    {JoinWords(ph, <<" ">>) :
        ph \in {PhraseArtigosCompletos, PhraseCapitulos, PhraseLivros}}

\* the fixture files parse_fixture is called with
FixtureNames ==
    {JoinWords(ph, <<" ">>) \o <<".", "h", "t", "m", "l">> :
        ph \in {PhraseArtigosCompletos, PhraseCapitulos, PhraseTextos,
                PhraseUnknown}}

\* ------------------------------------------------------------------------
\* State
\*   doc       the html fragment at hand, as entries of blocks
\*   parser    the parser instance at hand: its class, its errors attribute,
\*             and whether parse_html has run on it
\*   run       what the last parse_html call on doc returned, whether the
\*             same class had parsed doc before (again) and whether the
\*             instance held error records when the call began (dirty)
\*   result    what the last parse_fixture call on doc returned
\*   label     the file name last given to get_parser_for_file
\*   selected  the class of the parser get_parser_for_file returned
\* ------------------------------------------------------------------------
NoParser == [kind |-> "none", errors |-> <<>>, used |-> FALSE]

NoRun == [kind |-> "none", status |-> "none", items |-> <<>>, nerr |-> 0,
          again |-> FALSE, dirty |-> FALSE]

NoMetadata == [parser_version |-> "", total_items |-> 0, parse_errors |-> 0,
               warnings |-> <<>>]

NoResult == [status |-> "none", schema_version |-> "", tipo_producao |-> <<>>,
             source_file |-> <<>>, items |-> <<>>,
             parse_metadata |-> NoMetadata]

\* no profile is being processed
NoBatch == [stage |-> "start", full_name |-> <<>>, all_productions |-> <<>>,
            sections_metadata |-> <<>>, repairs |-> 0,
            items |-> <<>>, allowed_years |-> AllYears,
            researcher_json |-> JNone]

\* no text is being normalized
NoNorm == [stage |-> "input", pieces |-> 0, value |-> <<>>, unescaped |-> <<>>,
           text |-> <<>>, iterations |-> 0, round |-> 1, once |-> <<>>]

Init ==
    /\ norm = NoNorm
    /\ batch = NoBatch
    /\ doc = <<>>
    /\ parser = NoParser
    /\ run = NoRun
    /\ result = NoResult
    /\ label = <<>>
    /\ selected = "none"

\* a block is added to the fragment; what earlier calls returned is dropped
AppendBlock(b) ==
    /\ Len(doc) < MaxBlocks
    /\ doc' = Append(doc, [block |-> b, count |-> 1])
    /\ run' = NoRun
    /\ result' = NoResult
    /\ label' = <<>>
    /\ selected' = "none"
    /\ UNCHANGED <<parser, batch, norm>>

\* RepMany consecutive copies of a block are added to the fragment
AppendRun(b) ==
    /\ Len(doc) < MaxBlocks
    /\ doc' = Append(doc, [block |-> b, count |-> RepMany])
    /\ run' = NoRun
    /\ result' = NoResult
    /\ label' = <<>>
    /\ selected' = "none"
    /\ UNCHANGED <<parser, batch, norm>>

\* another fragment is started
NewDocument ==
    /\ doc # <<>>
    /\ doc' = <<>>
    /\ run' = NoRun
    /\ result' = NoResult
    /\ label' = <<>>
    /\ selected' = "none"
    /\ UNCHANGED <<parser, batch, norm>>

\* ArtigoParser(), CapituloParser(), TextoJornalParser(), GenericParser()
NewParser(kind) ==
    /\ parser' = [kind |-> kind, errors |-> <<>>, used |-> FALSE]
    /\ UNCHANGED <<doc, run, result, label, selected, batch, norm>>

\* what a parse_html call leaves for the caller to see
RunOf(kind, errs, r, earlier) ==
    [kind |-> kind,
     status |-> IF r.raised THEN "raised" ELSE "returned",
     items |-> IF r.raised THEN <<>> ELSE r.results,
     nerr |-> Len(r.errors),
     again |-> earlier.status # "none" /\ earlier.kind = kind,
     dirty |-> errs # <<>>]

\* parser.parse_html(html) on the instance at hand has returned or raised, r
\* being its results and the errors it left
ParsedHtml(r) ==
    /\ parser' = [parser EXCEPT !.errors = r.errors, !.used = TRUE]
    /\ run' = RunOf(parser.kind, parser.errors, r, run)

\* parser.parse_html(html) on the instance at hand
ParseHtml ==
    /\ parser.kind # "none"
    /\ ParsedHtml(parse_html(parser.kind, parser.errors, Expand(doc)))
    /\ UNCHANGED <<doc, result, label, selected, batch, norm>>

WarnLimit == 10

Min(a, b) == IF a <= b THEN a ELSE b

\* one warning per error, the [:10] slice forgotten
Warnings_unlimited(errs) ==
    [i \in 1..Len(errs) |->
        [item |-> IF errs[i].ordem_lattes.kind # "absent"
                  THEN errs[i].ordem_lattes
                  ELSE IntNum(errs[i].index),
         reason |-> errs[i].reason]]

\* the warnings of parse_fixture: one string per error, for parser.errors[:10]
Warnings(errs) ==
    [i \in 1..Min(Len(errs), WarnLimit) |->
        [item |-> IF errs[i].ordem_lattes.kind # "absent"
                  THEN errs[i].ordem_lattes
                  ELSE IntNum(errs[i].index),
         reason |-> errs[i].reason]]

\* the dictionary parse_fixture builds from the items and the parser;
\* extraction_timestamp, the wall clock of the call, is not part of it
Wrapper(filepath, kind, r) ==
    [status |-> "returned",
     schema_version |-> "2.0.0",
     tipo_producao |-> PathStem(filepath),
     source_file |-> PathName(filepath),
     items |-> r.results,
     parse_metadata |->
        [parser_version |-> "1.0.0",
         total_items |-> Len(r.results),
         parse_errors |-> IF HasErrors(kind) /\ r.errors # <<>>
                          THEN Len(r.errors) ELSE 0,
         warnings |-> IF HasErrors(kind) /\ r.errors # <<>>
                      THEN Warnings(r.errors) ELSE <<>>]]

\* parse_fixture after the parser of class kind has parsed the file, r being
\* its results and the errors it left
ParsedFixture(filepath, kind, r) ==
    /\ label' = filepath
    /\ selected' = kind
    /\ run' = RunOf(kind, <<>>, r, run)
    /\ result' = IF r.raised THEN [NoResult EXCEPT !.status = "raised"]
                 ELSE Wrapper(filepath, kind, r)

\* parse_fixture once get_parser_for_file has returned a parser of class kind
ParseWith(filepath, kind) ==
    ParsedFixture(filepath, kind, parse_html(kind, <<>>, Expand(doc)))

\* parse_fixture(filepath) on a file whose content is doc: ValueError on an
\* empty file, otherwise a new parser of the selected class parses it; the
\* parser is local to the call
parse_fixture(filepath) ==
    IF doc = <<>>
    THEN /\ result' = [NoResult EXCEPT !.status = "ValueError"]
         /\ UNCHANGED <<run, label, selected>>
    ELSE ParseWith(filepath, get_parser_for_file(filepath))

ParseFixture(filepath) ==
    /\ parse_fixture(filepath)
    /\ UNCHANGED <<doc, parser, batch, norm>>

\* parse_section_html(section_html, section_title, temp_dir): the section is
\* written to a temporary file named after the title and parsed from there
ParseSectionHtml(title) ==
    /\ parse_fixture(TempFilename(title))
    /\ UNCHANGED <<doc, parser, batch, norm>>

\* get_parser_for_file(filepath)
GetParserForFile(filepath) ==
    /\ label' = filepath
    /\ selected' = get_parser_for_file(filepath)
    /\ UNCHANGED <<doc, parser, run, result, batch, norm>>

\* ------------------------------------------------------------------------
\* batch_full_profile.py: process_researcher_file, after the sections are
\* parsed
\* ------------------------------------------------------------------------
\* exclude_keys={'raw', 'raw_text'}
ExcludeKeys == {"raw", "raw_text"}

SchemaVersion == <<"2", ".", "0", ".", "0">>

\* 'all' if allowed_years is None else list(allowed_years)
FilterYears(allowed_years) ==
    IF ~allowed_years.given THEN JStr(<<"a", "l", "l">>)
    ELSE JList([i \in 1..Len(allowed_years.years) |->
                  JInt(allowed_years.years[i])])

\* section_counts[section_name]: the productions whose
\* source.production_type is section_name, 0 when it is not a key
SectionCount(section_name, all_productions) ==
    Cardinality({k \in 1..Len(all_productions) :
                    /\ Truthy(Get(SourceOf(all_productions[k]), "production_type"))
                    /\ Get(SourceOf(all_productions[k]), "production_type")
                          = JStr(section_name)})

\* section['item_count'] set again for each section, after the filter
Recounted(sections_metadata, all_productions) ==
    [i \in 1..Len(sections_metadata) |->
        [sections_metadata[i] EXCEPT !.item_count =
            SectionCount(sections_metadata[i].section_title, all_productions)]]

\* one entry of sections_metadata as a dict
SectionDict(section) ==
    JDict([section_title |-> JStr(section.section_title),
           item_count |-> JInt(section.item_count)])

\* researcher_json: of the researcher the name, of the metadata the number
\* of productions, the sections and the filter
ResearcherJson(full_name, all_productions, sections_metadata, allowed_years) ==
    JDict([schema_version |-> JStr(SchemaVersion),
           researcher |-> JDict([full_name |-> JStr(full_name)]),
           metadata |->
              JDict([total_productions |-> JInt(Len(all_productions)),
                     sections |->
                        JList([i \in 1..Len(sections_metadata) |->
                                 SectionDict(sections_metadata[i])]),
                     filters |-> JDict([years |-> FilterYears(allowed_years)])]),
           productions |-> JList(all_productions)])

\* the item ArtigoParser builds from a plain block without DOI anchor
PlainArtigoItem(n, raw) ==
    ArtigoItem(n, raw, _extract_ano_from_text(raw), NoText)

\* the productions the sections of a profile give: items as the parsers
\* build them from these citations
ParsedItems ==
    {ItemDict(GenericItem(1, TextShortAuthors)),
     ItemDict(GenericItem(2, TextYearAuthors)),
     ItemDict(PlainArtigoItem(3, TextShortTitle)),
     ItemDict(PlainArtigoItem(4, TextMojibake)),
     ItemDict(Item(5, TextChapter)),
     ItemDict(Item(6, TextUndated)),
     ItemDict(PlainArtigoItem(7, TextArtigo))}

\* the characters of " 2024"
AnoPadded == <<" ", "2", "0", "2", "4">>

\* the characters of "s.d."
AnoUndated == <<"s", ".", "d", ".">>

\* items that carry a year of their own, as an int or as a str
DatedItems ==
    {Put(ItemDict(Item(8, TextChapter)), "ano", JInt(1999)),
     Put(ItemDict(Item(9, TextUndated)), "ano", JStr(AnoPadded)),
     Put(ItemDict(Item(10, TextChapter)), "ano", JStr(AnoUndated)),
     Put(ItemDict(Item(11, TextUndated)), "ano", JNone)}

Productions == ParsedItems \cup DatedItems

\* the characters of "Artigos  aceitos", two spaces between the words
TitleSpaced ==
    <<"A", "r", "t", "i", "g", "o", "s", " ", " ",
      "a", "c", "e", "i", "t", "o", "s">>

\* the section titles of a profile
SectionHeadings == {LabelArtigos, TitleSpaced, <<>>}

\* the items of the counted sections
SectionItems ==
    {ItemDict(PlainArtigoItem(7, TextArtigo)),
     Put(ItemDict(Item(8, TextChapter)), "ano", JInt(1999)),
     Put(ItemDict(Item(9, TextUndated)), "ano", JStr(AnoPadded))}

\* DEFAULT_ALLOWED_YEARS
DEFAULT_ALLOWED_YEARS == <<2024, 2025>>

\* the values of allowed_years
AllowedYears ==
    {AllYears, Years(DEFAULT_ALLOWED_YEARS), Years(<<2020, 2021>>), Years(<<>>)}

\* the characters of "JoÃ£o Souza" and of "Ana Lima"
NameMojibake ==
    <<"J", "o", "A_tilde", "pound", "o", " ", "S", "o", "u", "z", "a">>

NameAna == <<"A", "n", "a", " ", "L", "i", "m", "a">>

FullNames == {NameMojibake, NameAna}

\* result['full_name'] = metadata['full_name']
ExtractMetadata(full_name) ==
    /\ batch.stage = "start"
    /\ batch' = [batch EXCEPT !.stage = "collecting", !.full_name = full_name]
    /\ UNCHANGED <<doc, parser, run, result, label, selected, norm>>

\* one pass of the section loop, for a section of one item:
\* all_productions.extend(items_with_provenance) and sections_metadata.append
ExtendProductions(item, section_title) ==
    /\ batch.stage = "collecting"
    /\ Len(batch.all_productions) < MaxItems
    /\ batch' = [batch EXCEPT
                    !.all_productions =
                       Append(@, WithProvenance(item, SourceFile,
                                                SectionLabel(section_title))),
                    !.sections_metadata =
                       Append(@, [section_title |-> section_title,
                                  item_count |-> 1])]
    /\ UNCHANGED <<doc, parser, run, result, label, selected, norm>>

\* _apply_citacao_fallbacks(all_productions), and the same call on the list
\* it has left
ApplyCitacaoFallbacks ==
    /\ \/ batch.stage = "collecting"
       \/ batch.stage = "repaired" /\ batch.repairs < 2
    /\ batch' = [batch EXCEPT !.stage = "repaired",
                    !.repairs = @ + 1,
                    !.all_productions = _apply_citacao_fallbacks(@)]
    /\ UNCHANGED <<doc, parser, run, result, label, selected, norm>>

\* all_productions = filter_productions_by_year(all_productions,
\* allowed_years); items is the list that was passed, as the call leaves it;
\* then the item_count of each section is set again
FilterProductionsByYear(allowed_years) ==
    /\ batch.stage = "repaired"
    /\ batch' = [batch EXCEPT !.stage = "filtered",
                    !.items = batch.all_productions,
                    !.allowed_years = allowed_years,
                    !.all_productions = filter_productions_by_year(@, allowed_years),
                    !.sections_metadata =
                       Recounted(@, filter_productions_by_year(
                                       batch.all_productions, allowed_years))]
    /\ UNCHANGED <<doc, parser, run, result, label, selected, norm>>

\* researcher_json = normalize_nested_text(researcher_json, exclude_keys=...)
NormalizeRecord ==
    /\ batch.stage = "filtered"
    /\ batch' = [batch EXCEPT !.stage = "normalized",
                    !.researcher_json =
                       normalize_nested_text(
                          ResearcherJson(batch.full_name, batch.all_productions,
                                         batch.sections_metadata,
                                         batch.allowed_years),
                          ExcludeKeys)]
    /\ UNCHANGED <<doc, parser, run, result, label, selected, norm>>

\* ------------------------------------------------------------------------
\* batch_full_profile.py: normalize_text, pass by pass
\* ------------------------------------------------------------------------
\* what the texts given to normalize_text are made of: mojibake bytes, an
\* entity and the rest of one, line ends, a letter
TextPieces ==
    {<<"A_tilde">>, <<"pound">>, <<"fhook">>, <<"emdash">>, <<"a">>,
     <<"&", "a", "m", "p", ";">>, <<"a", "m", "p", ";">>, <<"cr">>, <<"\n">>}

\* the caller's text grows by a piece
AppendPiece(piece) ==
    /\ norm.stage = "input"
    /\ norm.pieces < MaxPieces
    /\ norm' = [norm EXCEPT !.pieces = @ + 1, !.value = @ \o piece]
    /\ UNCHANGED <<doc, parser, run, result, label, selected, batch>>

\* normalize_text(value) up to its loop: entities unescaped, line ends
\* made "\n"
EnterLoop(n, value) ==
    [n EXCEPT !.stage = "loop", !.value = value,
              !.unescaped = UnixLines(Unescape(value)),
              !.text = UnixLines(Unescape(value)), !.iterations = 0]

NormalizeText ==
    /\ norm.stage = "input"
    /\ norm' = EnterLoop(norm, norm.value)
    /\ UNCHANGED <<doc, parser, run, result, label, selected, batch>>

\* one iteration of the loop: it breaks when the text has no marker or no
\* candidate is accepted, and otherwise replaces the text
Iterate(n, text) ==
    IF text = n.text
    THEN [n EXCEPT !.stage = "returned", !.iterations = @ + 1]
    ELSE [n EXCEPT !.text = text, !.iterations = @ + 1]

RepairPass ==
    /\ norm.stage = "loop"
    /\ norm.iterations < 2
    /\ norm' = Iterate(norm, FixPass(norm.text))
    /\ UNCHANGED <<doc, parser, run, result, label, selected, batch>>

\* range(2) is exhausted
LoopEnds ==
    /\ norm.stage = "loop"
    /\ norm.iterations = 2
    /\ norm' = [norm EXCEPT !.stage = "returned"]
    /\ UNCHANGED <<doc, parser, run, result, label, selected, batch>>

\* normalize_text on what normalize_text returned
NormalizeAgain ==
    /\ norm.stage = "returned"
    /\ norm.round = 1
    /\ norm' = EnterLoop([norm EXCEPT !.round = 2, !.once = norm.text], norm.text)
    /\ UNCHANGED <<doc, parser, run, result, label, selected, batch>>

\* parser instances parsing fragments
Next ==
    \/ \E b \in Blocks : AppendBlock(b)
    \/ NewDocument
    \/ \E kind \in ParserKinds : NewParser(kind)
    \/ ParseHtml

Spec == Init /\ [][Next]_vars

\* parser instances parsing the blocks whose fields they extract
NextCitation ==
    \/ \E b \in CitationBlocks : AppendBlock(b)
    \/ NewDocument
    \/ \E kind \in ParserKinds : NewParser(kind)
    \/ ParseHtml

SpecCitation == Init /\ [][NextCitation]_vars

\* fixture files and profile sections parsed through parse_fixture
NextFixture ==
    \/ \E b \in FixtureBlocks : AppendBlock(b)
    \/ \E b \in RepBlocks : AppendRun(b)
    \/ NewDocument
    \/ \E f \in FixtureNames : ParseFixture(f)
    \/ \E t \in SectionTitles : ParseSectionHtml(t)

SpecFixture == Init /\ [][NextFixture]_vars

\* the router asked for the parser of a file name
NextRouter == \E f \in FileNames : GetParserForFile(f)

SpecRouter == Init /\ [][NextRouter]_vars

\* the productions of a profile repaired, filtered and normalized
NextBatch ==
    \/ \E full_name \in FullNames : ExtractMetadata(full_name)
    \/ \E item \in Productions : \E section_label \in SectionLabels :
          ExtendProductions(item, section_label)
    \/ ApplyCitacaoFallbacks
    \/ \E allowed_years \in AllowedYears : FilterProductionsByYear(allowed_years)
    \/ NormalizeRecord

SpecBatch == Init /\ [][NextBatch]_vars

\* the sections of a profile counted: one-item sections under titles that
\* repeat, that hold repeated whitespace, or that are empty
NextSections ==
    \/ \E full_name \in {NameAna} : ExtractMetadata(full_name)
    \/ \E item \in SectionItems : \E section_title \in SectionHeadings :
          ExtendProductions(item, section_title)
    \/ ApplyCitacaoFallbacks
    \/ \E allowed_years \in AllowedYears : FilterProductionsByYear(allowed_years)
    \/ NormalizeRecord

SpecSections == Init /\ [][NextSections]_vars

\* texts normalized by normalize_text, once and a second time
NextText ==
    \/ \E piece \in TextPieces : AppendPiece(piece)
    \/ NormalizeText
    \/ RepairPass
    \/ LoopEnds
    \/ NormalizeAgain

SpecText == Init /\ [][NextText]_vars

\* ------------------------------------------------------------------------
\* Properties
\* ------------------------------------------------------------------------
\* the blocks the last call enumerated, and the loop it ran on them
LastPath == PathOf(run.kind, Expand(doc))

LastBlocks == Enumerated(run.kind, Expand(doc))

\* the last call was made on the instance at hand
OwnRun == run.status # "none" /\ parser.used /\ parser.kind = run.kind

Indices(seq) == 1..Len(seq)

\* C1: every emitted item's fingerprint is the SHA-1 of its raw, and its raw
\* is the whitespace-normalised text of a block of the fragment (text nodes
\* joined with or without a space) with nothing rewritten in it.
C1_RawIsBlockText ==
    \A k \in Indices(run.items) :
        /\ run.items[k].fingerprint_sha1 = Sha1(run.items[k].raw)
        /\ \E i \in Indices(LastBlocks) : \E sep \in {<<>>, <<" ">>} :
              run.items[k].raw = clean_text(get_text(LastBlocks[i].nodes, sep))

\* C2: a parse_html call that parses again a fragment the same parser class
\* has just parsed, on the same instance or on a new one, returns the same
\* items and leaves the same number of error records.
C2_Determinism ==
    [][(run.status # "none" /\ run'.status # "none" /\ run'.kind = run.kind)
          => /\ run'.status = run.status
             /\ run'.items = run.items
             /\ run'.nerr = run.nerr]_vars

\* a fragment parsed again, with items emitted and errors recorded
C2_Witness ==
    /\ run.again
    /\ run.status = "returned"
    /\ run.items # <<>>
    /\ run.nerr > 0

\* C3: no two items of one parse call carry the same fingerprint.
C3_FingerprintsDistinct ==
    \A i, j \in Indices(run.items) :
        i # j => run.items[i].fingerprint_sha1 # run.items[j].fingerprint_sha1

\* the items of the enumerated blocks whose try body builds an item, in
\* document order
BuiltItems(path, blocks) ==
    ConcatAll([i \in 1..Len(blocks) |->
                 IF Body(path, blocks[i]).t = "item"
                 THEN <<Body(path, blocks[i]).item>> ELSE <<>>])

\* C4: whatever the other blocks do, every block that parses is emitted, and
\* the emitted items are in document order.
C4_LoopContinues ==
    run.status # "none" => run.items = BuiltItems(LastPath, LastBlocks)

\* the enumerated blocks whose try body throws
Throwing(path, blocks) == {i \in Indices(blocks) : Body(path, blocks[i]).t = "throw"}

ExceptionRecords(errs) == {k \in Indices(errs) : errs[k].reason = "exception"}

\* C5: a call records exactly one 'exception' error per block that throws.
C5_ExceptionsRecorded ==
    OwnRun =>
        Cardinality(ExceptionRecords(parser.errors))
            = Cardinality(Throwing(LastPath, LastBlocks))

\* the registry entries whose key is a substring of the normalized label
Matching(normalized_name) ==
    {i \in Indices(PARSER_REGISTRY) :
        Contains(normalized_name, PARSER_REGISTRY[i].pattern)}

\* C6: the router returns the parser of the first registry entry whose key is
\* a substring of the normalized label, and GenericParser exactly when no key
\* is a substring of it.
C6_FirstMatch ==
    selected # "none" =>
        LET M == Matching(normalize_filename(PathName(label))) IN
        /\ (selected = "GenericParser") <=> (M = {})
        /\ M # {} => selected = PARSER_REGISTRY[SetMin(M)].parser_class

\* a label two keys of different parsers match, routed to the first of them
C6_Witness ==
    LET M == Matching(normalize_filename(PathName(label))) IN
    \E m, n \in M :
        /\ m < n
        /\ PARSER_REGISTRY[m].parser_class # PARSER_REGISTRY[n].parser_class
        /\ \A x \in M : m <= x
        /\ selected = PARSER_REGISTRY[m].parser_class

\* C7: a section whose title contains a registered category is parsed by that
\* category's parser.
C7_SectionRoutedByTitle ==
    \A t \in SectionTitles :
        (label = TempFilename(t) /\ selected # "none") =>
            LET M == Matching(normalize_filename(t)) IN
            M # {} => selected = PARSER_REGISTRY[SetMin(M)].parser_class

\* the enumerated blocks that reach the chapter test with both tokens and
\* without the AUTHORS. TITLE. In: pattern
Unstructured(blocks) ==
    {i \in Indices(blocks) :
        /\ CapituloBody(blocks[i]).t = "item"
        /\ ~_extract_titulo(CapituloBody(blocks[i]).item.raw).found}

\* C8: the chapter parser emits items only for blocks with both tokens and
\* the chapter pattern, records one missing_structure error for each block
\* with both tokens and no pattern, and nothing for a block lacking a token.
C8_ChapterErrors ==
    (OwnRun /\ run.kind = "CapituloParser") =>
        /\ \A k \in Indices(run.items) :
              /\ LooksLikeChapter(run.items[k].raw)
              /\ _extract_titulo(run.items[k].raw).found
        /\ Cardinality({k \in Indices(parser.errors) :
                           parser.errors[k].reason = "missing_structure"})
               = Cardinality(Unstructured(LastBlocks))
        /\ \A k \in Indices(parser.errors) :
              LET b == LastBlocks[parser.errors[k].index + 1] IN
              b.span => LooksLikeChapter(clean_text(get_text(b.nodes, <<>>)))

\* the enumerated blocks for which the last call appended an error record:
\* those whose pass fails, up to the pass that left the loop
Failing(path, blocks) ==
    {i \in Indices(blocks) :
        /\ Step(path, blocks[i], i - 1).t = "error"
        /\ \A j \in 1..(i - 1) : Step(path, blocks[j], j - 1).t # "raise"}

\* C9: after a parse_html call the errors attribute of the instance holds the
\* records of that call and no other: one per failing block, in block order.
C9_ErrorsOfLastCall ==
    (OwnRun /\ HasErrors(parser.kind)) =>
        /\ Len(parser.errors) = Cardinality(Failing(LastPath, LastBlocks))
        /\ \A k \in Indices(parser.errors) :
              LET i == parser.errors[k].index + 1 IN
              /\ i \in Failing(LastPath, LastBlocks)
              /\ parser.errors[k] = Step(LastPath, LastBlocks[i], i - 1).err
        /\ \A k, l \in Indices(parser.errors) :
              k < l => parser.errors[k].index < parser.errors[l].index

\* an instance that held error records parsed a fragment without failing
\* block: its errors are empty again
C9_Witness ==
    /\ OwnRun
    /\ HasErrors(parser.kind)
    /\ run.dirty
    /\ run.status = "returned"
    /\ run.items # <<>>
    /\ parser.errors = <<>>

\* C10: the wrapper of parse_fixture has schema_version 2.0.0, total_items
\* equal to the number of items, parse_errors equal to the number of error
\* records of the run, and min(10, parse_errors) warnings.
C10_WrapperConsistent ==
    result.status = "returned" =>
        LET m == result.parse_metadata IN
        /\ result.schema_version = "2.0.0"
        /\ m.total_items = Len(result.items)
        /\ result.items = run.items
        /\ m.parse_errors = run.nerr
        /\ Len(m.warnings) = (IF m.parse_errors <= 10 THEN m.parse_errors ELSE 10)

\* a wrapper with items and more than ten errors
C10_Witness ==
    /\ result.status = "returned"
    /\ result.parse_metadata.total_items > 0
    /\ result.parse_metadata.parse_errors > 10
    /\ Len(result.parse_metadata.warnings) = 10

\* C16: the k-th item of the list parse_fixture returns has numero_item = k,
\* whatever ordinal the block carried in the source.
C16_Renumbered ==
    result.status = "returned" =>
        \A k \in Indices(result.items) : result.items[k].numero_item = k

\* C18: every item parse_fixture returns has an ordinal numero_item >= 1, a
\* non-empty raw and the fingerprint of that raw.
C18_MinimalFields ==
    result.status = "returned" =>
        \A k \in Indices(result.items) :
            /\ result.items[k].numero_item >= 1
            /\ result.items[k].raw # <<>>
            /\ result.items[k].fingerprint_sha1 = Sha1(result.items[k].raw)

\* C17: the Generic parser emits no block whose title is invalid: every item
\* of a list parse_fixture got from GenericParser has a title.
C17_InvalidTitlesFiltered ==
    (result.status = "returned" /\ selected = "GenericParser") =>
        \A k \in Indices(result.items) : result.items[k].titulo.found

\* the '; '-separated authors of an autores value
AuthorTokens(autores) == Split(autores, <<";">>)

\* C15: the autores of an item parse_fixture returns from the Article or the
\* Generic parser holds no year token (19|20)xx, glued to an initial or not.
C15_AuthorsWithoutYears ==
    (result.status = "returned"
        /\ selected \in {"ArtigoParser", "GenericParser"}) =>
        \A k \in Indices(result.items) :
            \A d \in Indices(result.items[k].autores.value) :
                ~YearToken(result.items[k].autores.value, d)

\* the surname of an author: the text before its first comma
Surname(author) == Strip(Slice(author, 1, NextOf(author, ",", 1) - 1))

\* C12: the title of an item does not contain the delimiter " . " and, when
\* the item has authors, no surname of 4 or more characters in any case.
C12_NoLeakIntoTitle ==
    (result.status = "returned"
        /\ selected \in {"ArtigoParser", "GenericParser"}) =>
        \A k \in Indices(result.items) :
            result.items[k].titulo.found =>
                /\ ~Contains(result.items[k].titulo.value, <<" ", ".", " ">>)
                /\ \A a \in Indices(AuthorTokens(result.items[k].autores.value)) :
                      Len(Surname(AuthorTokens(result.items[k].autores.value)[a])) >= 4
                      => ~Contains(
                            Lower(result.items[k].titulo.value),
                            Lower(Surname(AuthorTokens(result.items[k].autores.value)[a])))

\* the keys _apply_citacao_fallbacks may write
RepairKeys == {"autores", "titulo", "veiculo", "livro"}

\* what the rule allows between an item and the same item after the pass
BoundedWrites(before, after) ==
    /\ DOMAIN before.dict \subseteq DOMAIN after.dict
    /\ DOMAIN after.dict \subseteq DOMAIN before.dict \cup RepairKeys
    /\ \A key \in DOMAIN before.dict \ RepairKeys :
          after.dict[key] = before.dict[key]
    /\ Get(after, "autores") # Get(before, "autores") =>
          /\ Get(after, "autores")
                = JStr(split_citacao(GetText(before, "raw")).autores)
          /\ _autores_parecem_lista(GetText(after, "autores"))
          /\ \/ ~Truthy(Get(before, "autores"))
             \/ _autores_tem_ano(Get(before, "autores"))
    /\ \A key \in {"titulo", "veiculo", "livro"} :
          Truthy(Get(before, key)) => Get(after, key) = Get(before, key)

\* C11: the pass of _apply_citacao_fallbacks over the productions replaces
\* autores only by a recomputed value that looks like an author list and only
\* when the current value is empty or holds a year; it writes titulo, veiculo
\* and livro only where they are empty, and touches no other key
C11_RuleBoundedWrites ==
    [][(batch.stage = "collecting" /\ batch'.stage = "repaired") =>
          /\ Len(batch'.all_productions) = Len(batch.all_productions)
          /\ \A k \in Indices(batch.all_productions) :
                BoundedWrites(batch.all_productions[k],
                              batch'.all_productions[k])]_vars

\* the pass has replaced authors that held a year and has kept a title that
\* differs from the recomputed one
C11_Witness ==
    /\ batch.stage = "repaired"
    /\ \E k \in Indices(batch.all_productions) :
          /\ Get(batch.all_productions[k], "numero_item") = JInt(2)
          /\ Get(batch.all_productions[k], "autores")
                # Optional(_extract_autores_heuristic(TextYearAuthors))
    /\ \E k \in Indices(batch.all_productions) :
          /\ Truthy(Get(batch.all_productions[k], "titulo"))
          /\ Get(batch.all_productions[k], "titulo")
                # JStr(split_citacao(GetText(batch.all_productions[k], "raw")).titulo)

\* the tokens of an autores value, separated by "; "
TokensOf(autores) == Split(autores, <<";", " ">>)

\* C14: every "; "-separated token of every autores value, as the parsers
\* emit it and after _apply_citacao_fallbacks, is longer than 2 characters
C14_AuthorTokenBoundary ==
    \A k \in Indices(batch.all_productions) :
       Truthy(Get(batch.all_productions[k], "autores")) =>
          \A t \in Indices(TokensOf(GetText(batch.all_productions[k], "autores"))) :
             Len(TokensOf(GetText(batch.all_productions[k], "autores"))[t]) > 2

\* the year of an item as the specification states it: its ano when that is an int or a string
\* of digits, otherwise the rightmost (19|20)xx token of its raw
HasYear(item, y) ==
    \/ IsInt(Get(item, "ano")) /\ y = Get(item, "ano").int
    \/ /\ IsStr(Get(item, "ano"))
       /\ IsDigits(Strip(Get(item, "ano").str))
       /\ y = IntOf(Strip(Get(item, "ano").str))
    \/ /\ ~IsInt(Get(item, "ano"))
       /\ ~(IsStr(Get(item, "ano")) /\ IsDigits(Strip(Get(item, "ano").str)))
       /\ \E d \in Indices(GetText(item, "raw")) :
             /\ YearToken(GetText(item, "raw"), d)
             /\ y = IntOf(SubSeq(GetText(item, "raw"), d, d + 3))
             /\ \A e \in (d + 1)..Len(GetText(item, "raw")) :
                   ~YearToken(GetText(item, "raw"), e)

\* the places of the items whose year is one of the allowed years
Selected(items, allowed_years) ==
    {k \in Indices(items) :
        \E i \in Indices(allowed_years.years) :
           HasYear(items[k], allowed_years.years[i])}

\* out holds the items at the places S, in their order
SubsequenceAt(out, items, S) ==
    /\ Len(out) = Cardinality(S)
    /\ \A k \in S : out[Cardinality({j \in S : j <= k})] = items[k]

\* C20: filter_productions_by_year returns, in their order, exactly the items
\* whose year (ano when an int or a string of digits, otherwise the rightmost
\* (19|20)xx token of raw) is an allowed year; with allowed_years None it
\* returns every item; the list it was given is as it was
C20_FilterByYear ==
    [][(batch.stage = "repaired" /\ batch'.stage = "filtered") =>
          /\ batch'.items = batch.all_productions
          /\ IF batch'.allowed_years.given
             THEN SubsequenceAt(batch'.all_productions, batch.all_productions,
                                Selected(batch.all_productions,
                                         batch'.allowed_years))
             ELSE batch'.all_productions = batch.all_productions]_vars

\* the filter has dropped an item whose ano is not allowed though the year
\* in its raw is, and has kept an item without a year in its raw for its ano
C20_Witness ==
    /\ batch.stage = "filtered"
    /\ batch.allowed_years = Years(DEFAULT_ALLOWED_YEARS)
    /\ Len(batch.items) = 2
    /\ Get(batch.items[1], "ano") = JInt(1999)
    /\ YearInRaw(GetText(batch.items[1], "raw")) = Year(2025)
    /\ Len(batch.all_productions) = 1
    /\ Get(batch.all_productions[1], "ano") = JStr(AnoPadded)
    /\ batch.all_productions[1] = batch.items[2]

RECURSIVE NormalizedAs(_, _, _)

\* out is value with the same keys and the same lists, the values under the
\* excluded keys as they were, every other str replaced by its normalize_text
\* and every other leaf as it was
NormalizedAs(value, out, exclude_keys) ==
    IF IsDict(value)
    THEN /\ IsDict(out)
         /\ DOMAIN out.dict = DOMAIN value.dict
         /\ \A key \in DOMAIN value.dict :
               IF key \in exclude_keys
               THEN out.dict[key] = value.dict[key]
               ELSE NormalizedAs(value.dict[key], out.dict[key], exclude_keys)
    ELSE IF IsList(value)
    THEN /\ IsList(out)
         /\ Len(out.list) = Len(value.list)
         /\ \A i \in Indices(value.list) :
               NormalizedAs(value.list[i], out.list[i], exclude_keys)
    ELSE IF IsStr(value)
    THEN out = JStr(normalize_text(value.str))
    ELSE out = value

\* C19: normalize_nested_text returns the value under an excluded key as it
\* is, at any depth, replaces every other str by its normalize_text, leaves
\* the other leaves as they are, and keeps the keys of every dict and the
\* length and order of every list
C19_NestedNormalization ==
    [][(batch.stage = "filtered" /\ batch'.stage = "normalized") =>
          NormalizedAs(ResearcherJson(batch.full_name, batch.all_productions,
                                         batch.sections_metadata,
                                      batch.allowed_years),
                       batch'.researcher_json, ExcludeKeys)]_vars

\* the productions of a normalized record
RecordProductions == Get(batch.researcher_json, "productions").list

\* a record was normalized in which a raw that normalize_text would change
\* is as it was, beside a title and a name that were changed
C19_Witness ==
    /\ batch.stage = "normalized"
    /\ Get(Get(batch.researcher_json, "researcher"), "full_name")
          # JStr(batch.full_name)
    /\ \E k \in Indices(RecordProductions) :
          /\ Get(RecordProductions[k], "raw") = Get(batch.all_productions[k], "raw")
          /\ normalize_text(GetText(RecordProductions[k], "raw"))
                # GetText(RecordProductions[k], "raw")
          /\ Get(RecordProductions[k], "titulo")
                # Get(batch.all_productions[k], "titulo")

\* _norm of the tests: accents stripped, whitespace collapsed, lower case
Norm(value) == Lower(Strip(CollapseSpaces(DropMarks(NFD(value)))))

\* the normalized title of an item that has one is in its normalized raw
TitleInRaw(item) ==
    Truthy(Get(item, "titulo")) =>
       Contains(Norm(GetText(item, "raw")), Norm(GetText(item, "titulo")))

\* C13: at every stage (as parsed, after _apply_citacao_fallbacks, after the
\* year filter and in the normalized researcher record) the normalized title
\* of every item that has a title is a substring of its normalized raw
C13_Containment ==
    /\ \A k \in Indices(batch.all_productions) :
          TitleInRaw(batch.all_productions[k])
    /\ batch.stage = "normalized" =>
          \A k \in Indices(RecordProductions) : TitleInRaw(RecordProductions[k])

\* C21: the loop of normalize_text runs at most 2 iterations, an iteration
\* replaces the text only by one with strictly fewer markers, and the text
\* never has more markers than the unescaped input
C21_BoundedMonotoneRepair ==
    [][(norm.stage = "loop" /\ norm'.round = norm.round) =>
          /\ norm'.iterations <= 2
          /\ norm'.text # norm.text =>
                _count_mojibake_markers(norm'.text)
                   < _count_mojibake_markers(norm.text)
          /\ _count_mojibake_markers(norm'.text)
                <= _count_mojibake_markers(norm.unescaped)
          /\ norm'.stage = "returned" => norm'.text = normalize_text(norm.value)]_vars

\* the loop has run twice and both iterations replaced the text: of two
\* markers none is left
C21_Witness ==
    /\ norm.stage = "returned"
    /\ norm.round = 1
    /\ norm.iterations = 2
    /\ _count_mojibake_markers(norm.unescaped) = 2
    /\ _count_mojibake_markers(norm.text) = 0

\* C29: normalize_text applied to what normalize_text returned returns it
\* unchanged
C29_NormalizeIdempotent ==
    (norm.stage = "returned" /\ norm.round = 2) => norm.text = norm.once

\* C28: _apply_citacao_fallbacks applied to a list it has already processed
\* changes nothing.
C28_FallbacksIdempotent ==
    [][(batch.stage = "repaired" /\ batch'.stage = "repaired") =>
          batch'.all_productions = batch.all_productions]_vars

\* the pass has run twice over a list in which it had written a key
C28_Witness ==
    /\ batch.stage = "repaired"
    /\ batch.repairs = 2
    /\ \E k \in Indices(batch.all_productions) : \E p \in Productions :
          /\ Get(p, "numero_item") = Get(batch.all_productions[k], "numero_item")
          /\ \E key \in RepairKeys :
                Get(p, key) # Get(batch.all_productions[k], key)

\* the identity of an item
Identity(item) ==
    <<Get(item, "raw"), Get(item, "fingerprint_sha1"), Get(item, "numero_item")>>

Identities(items) == [k \in 1..Len(items) |-> Identity(items[k])]

RECURSIVE IsSubsequence(_, _)
\* a is b with some of its elements left out
IsSubsequence(a, b) ==
    IF a = <<>> THEN TRUE
    ELSE IF b = <<>> THEN FALSE
    ELSE IF Head(a) = Head(b) THEN IsSubsequence(Tail(a), Tail(b))
    ELSE IsSubsequence(a, Tail(b))

\* the fingerprint of each item is the digest of its raw text
Fingerprinted(items) ==
    \A k \in 1..Len(items) :
        Get(items[k], "fingerprint_sha1") = JHex(Sha1(GetText(items[k], "raw")))

\* C27: provenance, the fallback pass, the year filter and the
\* normalization of the record leave raw, fingerprint_sha1 and numero_item
\* of every surviving item as the parser set them and keep the items in
\* their order, so that in the record fingerprint_sha1 is the SHA-1 of raw.
C27_IdentityFramed ==
    [][/\ (batch.stage = "collecting" /\ batch'.stage = "collecting") =>
             /\ Len(batch'.all_productions) = Len(batch.all_productions) + 1
             /\ SubSeq(Identities(batch'.all_productions), 1,
                       Len(batch.all_productions))
                   = Identities(batch.all_productions)
             /\ \E p \in Productions :
                   Identity(p) = Identity(batch'.all_productions[
                                             Len(batch'.all_productions)])
       /\ batch'.stage = "repaired" =>
             Identities(batch'.all_productions)
                = Identities(batch.all_productions)
       /\ batch'.stage = "filtered" =>
             IsSubsequence(Identities(batch'.all_productions),
                           Identities(batch.all_productions))
       /\ batch'.stage = "normalized" =>
             /\ Identities(Get(batch'.researcher_json, "productions").list)
                   = Identities(batch.all_productions)
             /\ Fingerprinted(Get(batch'.researcher_json, "productions").list)
      ]_vars

\* the record of a profile of which the filter has dropped an item and kept
\* one whose raw text normalize_text would change
C27_Witness ==
    /\ batch.stage = "normalized"
    /\ Len(batch.items) > Len(RecordProductions)
    /\ \E k \in Indices(RecordProductions) :
          /\ normalize_text(GetText(RecordProductions[k], "raw"))
                # GetText(RecordProductions[k], "raw")
          /\ Get(RecordProductions[k], "titulo")
                # Get(batch.all_productions[k], "titulo")

RecordMetadata == Get(batch.researcher_json, "metadata")

RecordSections == Get(RecordMetadata, "sections").list

RECURSIVE SumCounts(_)
\* the sum of the item_count of the sections
SumCounts(sections) ==
    IF sections = <<>> THEN 0
    ELSE Get(Head(sections), "item_count").int + SumCounts(Tail(sections))

\* C30: in the record the item_count of the sections add up to
\* metadata.total_productions, which is the length of productions.
C30_SectionCounts ==
    batch.stage = "normalized" =>
        /\ SumCounts(RecordSections)
              = Get(RecordMetadata, "total_productions").int
        /\ Get(RecordMetadata, "total_productions").int = Len(RecordProductions)

\* the enumerated blocks with the number of the item
BlocksOf(item) ==
    {i \in Indices(LastBlocks) : LastBlocks[i].num = IntNum(item.numero_item)}

\* where the first " . " of a text stands, past its end when it has none
FirstDelimiter(raw) == Find(raw, TokenDelimiter, 1)

\* the authors a parser of the given class derives from the text before the
\* first " . " alone
AuthorsBefore(kind, raw) ==
    IF kind = "GenericParser"
    THEN GenericAuthorsIn(raw, {FirstDelimiter(raw) - 1})
    ELSE ArtigoAuthorsIn(raw, {FirstDelimiter(raw) - 1})

\* C22: in the items of the Article and Generic parsers, autores, when set,
\* is derived from the text before the first " . " of raw alone, the title
\* from the text after it, and the title is no part of autores.
C22_DisjointSides ==
    (OwnRun /\ run.kind \in {"ArtigoParser", "GenericParser"}) =>
        \A k \in Indices(run.items) :
            run.items[k].autores.found =>
                /\ FirstDelimiter(run.items[k].raw) <= Len(run.items[k].raw)
                /\ run.items[k].autores
                      = AuthorsBefore(run.kind, run.items[k].raw)
                /\ run.items[k].titulo.found =>
                      /\ Contains(Slice(run.items[k].raw,
                                        FirstDelimiter(run.items[k].raw) + 3,
                                        Len(run.items[k].raw)),
                                  run.items[k].titulo.value)
                      /\ ~Contains(run.items[k].autores.value,
                                   run.items[k].titulo.value)

\* C23: the title of an emitted item is never the whole trimmed raw text of
\* the item, in any parser.
C23_TitleNotRaw ==
    OwnRun =>
        \A k \in Indices(run.items) :
            run.items[k].titulo.found =>
                run.items[k].titulo.value # Strip(run.items[k].raw)

\* a text with neither " . " nor a period, whitespace and an upper case
\* letter after a prefix that looks like an author block
NoBoundary(text) ==
    /\ ~Contains(text, TokenDelimiter)
    /\ \A d \in 2..Len(text) :
          (/\ text[d] = "."
           /\ IsSpace(At(text, d + 1))
           /\ IsUpperLatin(At(text, SkipSpaces(text, d + 1))))
             => ~_autores_parecem_lista(clean_text(Slice(text, 1, d - 1)))

\* a numbered block with a span whose text is not empty and has no boundary
SparseBlock(b) ==
    /\ b.num.kind = "int" /\ b.cell11 /\ b.span /\ ~b.fault
    /\ clean_text(get_text(b.nodes, <<" ">>)) # <<>>
    /\ NoBoundary(clean_text(get_text(b.nodes, <<" ">>)))

\* C24: for an enumerated block whose text has neither boundary, every parser
\* emits an item with autores None and a titulo that is not empty, and
\* records no error.
C24_SparseInput ==
    OwnRun =>
        \A i \in Indices(LastBlocks) :
            SparseBlock(LastBlocks[i]) =>
                /\ \E k \in Indices(run.items) :
                      /\ IntNum(run.items[k].numero_item) = LastBlocks[i].num
                      /\ ~run.items[k].autores.found
                      /\ run.items[k].titulo.found
                      /\ run.items[k].titulo.value # <<>>
                /\ \A e \in Indices(parser.errors) :
                      parser.errors[e].index # i - 1

\* the year the rule gives a block whose item has the text raw
RuleYear(b, raw) == IF b.ano.found THEN _extract_ano(b) ELSE YearInRaw(raw)

\* C25: the ano of an emitted item is the year field of its block when the
\* block has one, and otherwise the rightmost (19|20)xx token of raw, None
\* when raw has none; for every parser and both Article shapes.
C25_YearSelection ==
    OwnRun =>
        \A k \in Indices(run.items) : \A i \in BlocksOf(run.items[k]) :
            run.items[k].ano = RuleYear(LastBlocks[i], run.items[k].raw)

\* the block in the plain layout-cell-1 + layout-cell-11 shape
AsPlain(b) == [b EXCEPT !.shape = "plain"]

\* C26: a block without year field gives, in the wrapper shape and in the
\* plain shape, items with the same keys and the same values, and when it
\* fails it is reported the same way in both shapes.
C26_ShapesEquivalent ==
    (OwnRun /\ LastPath = "artigo_wrapper") =>
        \A i \in Indices(LastBlocks) :
            ~LastBlocks[i].ano.found =>
                Step("artigo_wrapper", LastBlocks[i], i - 1)
                   = Step("artigo_plain", AsPlain(LastBlocks[i]), i - 1)

====
